---- MODULE Spec2Model ----
(***************************************************************************)
(* A model of the past-paper ingestion pipeline of the AI-Tutor repository *)
(* (src/lib/rag/ingest-pipeline.ts and the extraction code it calls).      *)
(*                                                                         *)
(* Three specifications share the module:                                  *)
(*   Spec         the ingestion orchestrator: ingestAllPapers, ingestPaper *)
(*                and the two extraction passes it runs, step by step;     *)
(*   SpecExtract  the post-processing of extracted records (validation,    *)
(*                deduplication, zero-mark parent filter, merge) applied   *)
(*                to every bounded input list;                             *)
(*   SpecChunk    the chunk loop of the extraction functions for every     *)
(*                bounded page count and chunk size;                       *)
(*   SpecFigure   the figure data (hasImage, bounding box, page number) of *)
(*                the records of both chunked extraction functions, up to  *)
(*                the calls of cropAndSaveImage in ingestPaper;            *)
(*   SpecCrop     the crop rectangle cropAndSaveImage computes, for both   *)
(*                implementations of the function;                         *)
(*   SpecUpsert   the sub-batch loop of upsertVectors, batch by batch;     *)
(*   SpecChat     the chat handler's retrieval step: search, timeout,      *)
(*                formatting of the results, start of the generation;      *)
(*   SpecGenerate an ingestion run with its generation calls pending in    *)
(*                time; the handler's own steps and timers are fair, the   *)
(*                answers of the generation capability are not;            *)
(*   SpecRetry    the generation attempts made for one chunk: the parse    *)
(*                retry loop of each extraction and generateWithRetry;     *)
(*   SpecDiscover discoverPapers over a directory tree of paper files;     *)
(*   SpecRace     steps 4 and 5 of ingestPaper in two runs on one scope;   *)
(*   SpecLimit    checkRateLimit under calls and clock advances.           *)
(***************************************************************************)
EXTENDS Integers, Sequences, FiniteSets, TLC

VARIABLES
    \* ---- SpecChunk: the chunk loop
    totalPages,      \* pdfDoc.getPageCount()
    chunkSize,       \* CHUNK_SIZE of the loop under test
    ci,              \* the loop variable i
    chunks,          \* the [startPage, endPage) windows produced so far
    cdone,           \* the loop has exited
    \* ---- SpecExtract: post-processing of one extraction
    xstage,          \* "raw", "validated", "thrown", "deduplicated", "filtered", "merged"
    xraw,            \* allQuestions as parsed, before validation
    xquestions,      \* questions after the validation loop (marks normalised)
    xdedup,          \* deduplicated
    xfiltered,       \* filtered (the value extractQuestionsFromPDF returns)
    xmergeIn,        \* the question list handed to mergeQuestionsWithMarkSchemes
    xschemes,        \* the mark-scheme list handed to mergeQuestionsWithMarkSchemes
    xmerged,         \* its result
    \* ---- Spec: the ingestion orchestrator
    callCount,       \* how many times ingestPaper has been called, over all runs
    runState,        \* "idle", "running", "finished" (returned) or "thrown"
    testMode,        \* the testMode argument of the current run
    paperIdx,        \* position of the for-loop in papersToProcess
    pc,              \* where ingestPaper is: "loop" (not in it), "extractQ",
                     \* "extractMS", "merge", "filter", "persist", "embed",
                     \* "upsert", "complete", "throwing", "failed"
    chunkStart,      \* the loop variable i of the running extraction
    retryCount,      \* retryCount of extractMarkSchemeFromPDF's while loop
    allQuestions,    \* extractQuestionsFromPDF's local: the parsed chunk responses,
                     \* as received, until the function returns or the error is caught
    allMarkSchemes,  \* likewise in extractMarkSchemeFromPDF
    questions,       \* what extractQuestionsFromPDF returned
    markSchemes,     \* what extractMarkSchemeFromPDF returned
    mergedQuestions,
    newQuestions,
    savedQuestions,  \* the records prisma.question.create returned in this call
    db,              \* the Question table: a set of rows
    created,         \* per natural key, how many rows were ever created
    index,           \* the vector index: a set of vector records
    calls,           \* history: the papers ingestPaper was called for, this run
    exhausted,       \* history: a chunk of this call ran out of attempts
    prev,            \* history: per paper, how its last ingestPaper call ended
    cleared          \* history: per paper, its rows were deleted since then

chunkVars == <<totalPages, chunkSize, ci, chunks, cdone>>
extractVars == <<xstage, xraw, xquestions, xdedup, xfiltered, xmergeIn, xschemes, xmerged>>
callVars == <<chunkStart, retryCount, allQuestions, allMarkSchemes, questions, markSchemes,
              mergedQuestions, newQuestions, savedQuestions, exhausted>>
storeVars == <<db, created, index>>
runVars == <<callCount, runState, testMode, paperIdx, calls, prev, cleared>>
orchVars == <<pc, callVars, storeVars, runVars>>

VARIABLES
    \* ---- SpecFigure: figure data from extraction to the crop step
    fparser,         \* the extraction function that runs
    fpages,          \* totalPages of the question paper
    fstart,          \* the chunk loop's i (startPage of the current chunk)
    fout,            \* allQuestions: the records pushed so far, then returned
    fstage,          \* "idle", "chunks", "returned", "cropped"
    fnext,           \* position of ingestPaper's loop over the returned records
    fcrops           \* history: the calls of cropAndSaveImage made so far

figureVars == <<fparser, fpages, fstart, fout, fstage, fnext, fcrops>>

VARIABLES
    \* ---- SpecCrop: one call of cropAndSaveImage
    cversion,        \* which cropAndSaveImage: "sharp" (mupdf + sharp) or "canvas"
    cwidth,          \* pixel width of the rendered page
    cheight,         \* pixel height of the rendered page
    cbox,            \* the boundingBox argument [ymin, xmin, ymax, xmax]
    cpageOk,         \* pageNumber is a page of the document
    cresult,         \* "pending", then null or the rectangle extracted
    cfigure,         \* the question's figure data: "complete", "noRegion"
                     \* (figureBoundingBox missing) or "noPage" (pageNumber missing)
    csaved           \* imageUrl of the row ingestPaper creates, "pending" before

cropVars == <<cversion, cwidth, cheight, cbox, cpageOk, cresult, cfigure, csaved>>

VARIABLES
    \* ---- SpecUpsert: one call of upsertVectors
    uvectors,        \* the vectors argument (each vector stands by its id)
    ui,              \* the loop variable i
    ubatch,          \* the batch index.upsert was called with and has not settled
    uindex,          \* the ids the index holds
    ustate,          \* "idle", "running", "returned" or "thrown"
    uerror,          \* what the caller's catch receives when the call throws
    uevents,         \* history: <<"send", k>> and <<"return", k>> per sub-batch
    ufailed          \* history: the number of the sub-batch that failed, or 0

upsertVars == <<uvectors, ui, ubatch, uindex, ustate, uerror, uevents, ufailed>>

VARIABLES
    \* ---- SpecChat: one request to the chat handler
    hhandler,        \* which POST: "route.ts" (with withTimeout) or "part_000"
    hstage,          \* "idle", "start", "awaitSearch", "responded"
    hclock,          \* milliseconds since the search was started
    houtcome,        \* how the awaited search ended: "none", "resolved",
                     \* "rejected", "timeout" or "skipped"
    hresults,        \* the SearchResult[] the search resolved with
    hcontext,        \* the local variable context, a list of lines
    hgen,            \* the context argument of streamChatResponse
    hstatus          \* status of the Response returned, 0 while there is none

chatVars == <<hhandler, hstage, hclock, houtcome, hresults, hcontext, hgen, hstatus>>

VARIABLES
    \* ---- SpecGenerate: the generation calls of an ingestion run, in time
    gtest,           \* the testMode argument of ingestAllPapers
    gpaper,          \* position of the for-loop in papersToProcess
    gpc,             \* "idle", "loop", "extractQ", "extractMS", "rest",
                     \* "complete", "failed", "finished", "thrown"
    gstart,          \* the chunk loop's i of the running extraction
    gcall,           \* the generation call: "none", "pending" (awaited, not
                     \* settled) or "backoff" (generateWithRetry's wait)
    gi,              \* generateWithRetry's loop variable i
    gretry,          \* retryCount of extractMarkSchemeFromPDF's while loop
    gclock,          \* milliseconds the pending call has been awaited
    gpause           \* history: "first" (no generation call was made yet),
                     \* "none" (no pause since the last call ended), "taken"

generateVars == <<gtest, gpaper, gpc, gstart, gcall, gi, gretry, gclock, gpause>>

VARIABLES
    \* ---- SpecRetry: the generation attempts for one chunk
    rparser,         \* the extraction function that runs
    rchunk,          \* number of the chunk the for loop is at, from 1
    rstate,          \* "idle", "ready" (top of the attempt loop), "pending"
                     \* (generateContent awaited), "done" (parsed), "givenUp"
                     \* (chunk skipped), "thrown" (the extraction throws)
    rretry,          \* retryCount of the while loop
    ri,              \* generateWithRetry's loop variable i
    rlog,            \* history: attempts, their outcomes and the waits between
    rtry             \* history: calls, outcomes and waits of the current
                     \* generateWithRetry invocation (or single generateContent)

retryVars == <<rparser, rchunk, rstate, rretry, ri, rlog, rtry>>

VARIABLES
    \* ---- SpecDiscover: one call of discoverPapers
    dversion,        \* which discoverPapers: "ingest-pipeline" or "ingest-practice"
    dfiles,          \* the pdf files under basePath that match the name pattern
    dstate,          \* "idle", "called", "returned"
    dpapers,         \* the list returned
    dwarned          \* history: the groups console.warn was called for

discoverVars == <<dversion, dfiles, dstate, dpapers, dwarned>>

VARIABLES
    \* ---- SpecRace: two orchestrator runs on one (year, paper) scope
    kpc,             \* per run: "idle", "filter" (step 4), "persist" (step 5)
    kpos,            \* per run: position of the running loop
    knew,            \* per run: newQuestions
    kstarted,        \* per run: how many times it has ingested the scope
    kdb,             \* the Question table
    koverlap         \* history: a run was in steps 4-5 while the other was

raceVars == <<kpc, kpos, knew, kstarted, kdb, koverlap>>

VARIABLES
    \* ---- SpecLimit: the in-memory rate limiter
    lconfig,         \* the RateLimitConfig of the last call
    lnow,            \* Date.now()
    lstore,          \* rateLimitStore: identifier -> { count, resetTime }
    lresult,         \* what the last checkRateLimit returned
    lcalled,         \* history: identifier and stored entry before the last call
    lallowed         \* history: per identifier and instant, the calls allowed

limitVars == <<lconfig, lnow, lstore, lresult, lcalled, lallowed>>

\* the state of the specifications added after the orchestrator
otherVars ==
    <<figureVars, cropVars, upsertVars, chatVars, generateVars, retryVars, discoverVars,
      raceVars, limitVars>>
notFigureVars ==
    <<chunkVars, extractVars, orchVars, cropVars, upsertVars, chatVars, generateVars,
      retryVars, discoverVars, raceVars, limitVars>>
notCropVars ==
    <<chunkVars, extractVars, orchVars, figureVars, upsertVars, chatVars, generateVars,
      retryVars, discoverVars, raceVars, limitVars>>
notUpsertVars ==
    <<chunkVars, extractVars, orchVars, figureVars, cropVars, chatVars, generateVars,
      retryVars, discoverVars, raceVars, limitVars>>
notChatVars ==
    <<chunkVars, extractVars, orchVars, figureVars, cropVars, upsertVars, generateVars,
      retryVars, discoverVars, raceVars, limitVars>>
notGenerateVars ==
    <<chunkVars, extractVars, orchVars, figureVars, cropVars, upsertVars, chatVars,
      retryVars, discoverVars, raceVars, limitVars>>
notDiscoverVars ==
    <<chunkVars, extractVars, orchVars, figureVars, cropVars, upsertVars, chatVars,
      generateVars, retryVars, raceVars, limitVars>>
notLimitVars ==
    <<chunkVars, extractVars, orchVars, figureVars, cropVars, upsertVars, chatVars,
      generateVars, retryVars, discoverVars, raceVars>>
notRaceVars ==
    <<chunkVars, extractVars, orchVars, figureVars, cropVars, upsertVars, chatVars,
      generateVars, retryVars, discoverVars, limitVars>>
notRetryVars ==
    <<chunkVars, extractVars, orchVars, figureVars, cropVars, upsertVars, chatVars,
      generateVars, discoverVars, raceVars, limitVars>>

-----------------------------------------------------------------------------
(* Bounds of the model.                                                    *)

MaxPages == 12
MaxChunkSize == 4
MaxLen == 3

(* Program constants.                                                      *)

CHUNK_SIZE == 10

-----------------------------------------------------------------------------
(* Generic helpers.                                                        *)

Min(a, b) == IF a < b THEN a ELSE b

Range(s) == {s[k] : k \in 1..Len(s)}

SeqsUpTo(S, n) == UNION {[1..k -> S] : k \in 0..n}

\* String.prototype.startsWith on strings modelled as sequences of characters.
StartsWith(s, prefix) ==
    /\ Len(prefix) <= Len(s)
    /\ SubSeq(s, 1, Len(prefix)) = prefix

-----------------------------------------------------------------------------
(* The chunk loop: for (let i = 0; i < totalPages; i += CHUNK_SIZE).       *)

ChunkEndPageNoClamp(i, size, pages) == i + size

\* const endPage = Math.min(i + CHUNK_SIZE, totalPages)
ChunkEndPage(i, size, pages) == Min(i + size, pages)

\* a loop that leaves before its last chunk
ChunkLoopSkipsLast(i, pages) == i + CHUNK_SIZE < pages

\* the loop condition i < totalPages
ChunkLoopContinues(i, pages) == i < pages

\* the loop increment i += CHUNK_SIZE
ChunkNextStart(i, size) == i + size

ChunkSizes == (1..MaxChunkSize) \cup {CHUNK_SIZE}

ChunkInit ==
    /\ totalPages \in 0..MaxPages
    /\ chunkSize \in ChunkSizes
    /\ ci = 0
    /\ chunks = <<>>
    /\ cdone = FALSE

\* one iteration of the loop body: the window [startPage, endPage) is cut out
ChunkStep ==
    /\ ~cdone
    /\ ChunkLoopContinues(ci, totalPages)
    /\ chunks' = Append(chunks, [startPage |-> ci,
                                 endPage |-> ChunkEndPage(ci, chunkSize, totalPages)])
    /\ ci' = ChunkNextStart(ci, chunkSize)
    /\ UNCHANGED <<totalPages, chunkSize, cdone>>

\* the loop condition fails: the loop exits
ChunkExit ==
    /\ ~cdone
    /\ ~ChunkLoopContinues(ci, totalPages)
    /\ cdone' = TRUE
    /\ UNCHANGED <<totalPages, chunkSize, ci, chunks>>

-----------------------------------------------------------------------------
(* Values of the parsed JSON.  A string field is a TLA+ string and the     *)
(* empty string stands for every falsy value of the field (absent, null,   *)
(* ''), which is all the validation looks at.  questionNumber is a         *)
(* sequence of characters so that startsWith can be computed.  marks keeps *)
(* its JavaScript type: a number, null/undefined, or something else.       *)

Num(n) == [type |-> "number", num |-> n]
Null == [type |-> "null", num |-> 0]
NotANumber == [type |-> "string", num |-> 0]

Undefined == "undefined"
MARK_SCHEME_NOT_FOUND == "Mark scheme not found"

Q3a == <<"3", "(", "a", ")">>
Q3ai == <<"3", "(", "a", ")", "(", "i", ")">>
Q3aX == <<"3", "(", "a", ")", "i">>

Question(qn, marks, text, topic, img) ==
    [questionNumber |-> qn, text |-> text, marks |-> marks, topic |-> topic,
     hasImage |-> img]

MarkScheme(qn, ms, remarks) ==
    [questionNumber |-> qn, markScheme |-> ms, examinerRemarks |-> remarks]

-----------------------------------------------------------------------------
(* extractQuestionsFromPDF, after the chunk loop: validation.              *)

\* if (q.marks === null || q.marks === undefined) q.marks = 0
NormaliseMarks(q) ==
    IF q.marks.type = "null" THEN [q EXCEPT !.marks = Num(0)] ELSE q

\* !q.questionNumber || !q.text || typeof q.marks !== 'number' || !q.topic
InvalidQuestion(q) ==
    \/ Len(q.questionNumber) = 0
    \/ q.text = ""
    \/ q.marks.type # "number"
    \/ q.topic = ""

ValidateQuestionsSkipInvalid(qs) ==
    [thrown |-> FALSE,
     value |-> SelectSeq([k \in 1..Len(qs) |-> NormaliseMarks(qs[k])],
                         LAMBDA q : ~InvalidQuestion(q))]

\* questions.forEach((q, idx) => { normalise; if (invalid) throw })
ValidateQuestions(qs) ==
    LET normalised == [k \in 1..Len(qs) |-> NormaliseMarks(qs[k])]
    IN  IF \E k \in 1..Len(qs) : InvalidQuestion(normalised[k])
        THEN [thrown |-> TRUE, value |-> <<>>]
        ELSE [thrown |-> FALSE, value |-> normalised]

\* !ms.questionNumber || !ms.markScheme
InvalidMarkScheme(ms) ==
    \/ Len(ms.questionNumber) = 0
    \/ ms.markScheme = ""

ValidateMarkSchemesSkipInvalid(mss) ==
    [thrown |-> FALSE, value |-> SelectSeq(mss, LAMBDA ms : ~InvalidMarkScheme(ms))]

\* markSchemes.forEach((ms, idx) => { if (invalid) throw })
ValidateMarkSchemes(mss) ==
    IF \E k \in 1..Len(mss) : InvalidMarkScheme(mss[k])
    THEN [thrown |-> TRUE, value |-> <<>>]
    ELSE [thrown |-> FALSE, value |-> mss]

-----------------------------------------------------------------------------
(* Deduplication: questions.filter with the `seen` set.                    *)

RECURSIVE DedupFrom(_, _, _)
DedupFrom(qs, k, seen) ==
    IF k > Len(qs) THEN <<>>
    ELSE IF qs[k].questionNumber \in seen
         THEN DedupFrom(qs, k + 1, seen)
         ELSE <<qs[k]>> \o DedupFrom(qs, k + 1, seen \cup {qs[k].questionNumber})

DeduplicateKeepLast(qs) ==
    LET keep == {k \in 1..Len(qs) :
                    \A j \in (k + 1)..Len(qs) :
                        qs[j].questionNumber # qs[k].questionNumber}
        RECURSIVE Pick(_)
        Pick(k) == IF k > Len(qs) THEN <<>>
                   ELSE (IF k \in keep THEN <<qs[k]>> ELSE <<>>) \o Pick(k + 1)
    IN  Pick(1)

Deduplicate(qs) == DedupFrom(qs, 1, {})

-----------------------------------------------------------------------------
(* The zero-mark parent filter.                                            *)

HasSubQuestionAnyPrefix(list, q) ==
    \E k \in 1..Len(list) :
        /\ list[k].questionNumber # q.questionNumber
        /\ StartsWith(list[k].questionNumber, q.questionNumber)

\* deduplicated.some(other => other.questionNumber !== q.questionNumber &&
\*                            other.questionNumber.startsWith(q.questionNumber + '('))
HasSubQuestion(list, q) ==
    \E k \in 1..Len(list) :
        /\ list[k].questionNumber # q.questionNumber
        /\ StartsWith(list[k].questionNumber, q.questionNumber \o <<"(">>)

\* deduplicated.filter(q => !(q.marks === 0 && hasSubQuestion))
FilterZeroMarkParents(list) ==
    SelectSeq(list, LAMBDA q : ~(q.marks = Num(0) /\ HasSubQuestion(list, q)))

-----------------------------------------------------------------------------
(* mergeQuestionsWithMarkSchemes.                                          *)

MarkSchemeMapGetFirst(mss, qn) ==
    LET idx == {k \in 1..Len(mss) : mss[k].questionNumber = qn}
    IN  IF idx = {} THEN <<>>
        ELSE <<mss[CHOOSE k \in idx : \A j \in idx : k <= j]>>

\* new Map(markSchemes.map(ms => [ms.questionNumber, ms])).get(qn):
\* a later entry replaces an earlier one with the same key
MarkSchemeMapGet(mss, qn) ==
    LET idx == {k \in 1..Len(mss) : mss[k].questionNumber = qn}
    IN  IF idx = {} THEN <<>>
        ELSE <<mss[CHOOSE k \in idx : \A j \in idx : j <= k]>>

MergeOne(q, mss) ==
    LET found == MarkSchemeMapGet(mss, q.questionNumber)
    IN  IF found = <<>>
        THEN [questionNumber |-> q.questionNumber, text |-> q.text, marks |-> q.marks,
              topic |-> q.topic, hasImage |-> q.hasImage,
              markScheme |-> MARK_SCHEME_NOT_FOUND, examinerRemarks |-> Undefined]
        ELSE [questionNumber |-> q.questionNumber, text |-> q.text, marks |-> q.marks,
              topic |-> q.topic, hasImage |-> q.hasImage,
              markScheme |-> found[1].markScheme,
              examinerRemarks |-> found[1].examinerRemarks]

mergeDroppingUnmatched(qs, mss) ==
    LET kept == SelectSeq(qs, LAMBDA q : MarkSchemeMapGet(mss, q.questionNumber) # <<>>)
    IN  [k \in 1..Len(kept) |-> MergeOne(kept[k], mss)]

\* questions.map(q => ({ ...q, markScheme, examinerRemarks }))
mergeQuestionsWithMarkSchemes(qs, mss) ==
    [k \in 1..Len(qs) |-> MergeOne(qs[k], mss)]

-----------------------------------------------------------------------------
(* SpecExtract: the post-processing applied to every bounded input.        *)

ExtractQuestionInputs ==
    {Question(qn, m, "t", "Waves", FALSE) : qn \in {Q3a, Q3ai, Q3aX}, m \in {Num(0), Num(2)}}
    \cup {Question(Q3a, Null, "t", "Waves", FALSE),
          Question(Q3ai, NotANumber, "t", "Waves", FALSE),
          Question(Q3a, Num(2), "t", "", FALSE)}

\* examinerRemarks is optional: one scheme text comes without, one with remarks
ExtractSchemeInputs ==
    {MarkScheme(qn, ms[1], ms[2]) :
        qn \in {Q3a, Q3ai}, ms \in {<<"m1", Undefined>>, <<"m2", "r2">>}}

ExtractSchemeLists ==
    {<<>>} \cup {<<a>> : a \in ExtractSchemeInputs}
           \cup {<<a, b>> : a \in ExtractSchemeInputs, b \in ExtractSchemeInputs}

ExtractInit ==
    /\ xstage = "raw"
    /\ xraw \in SeqsUpTo(ExtractQuestionInputs, MaxLen)
    /\ xquestions = <<>>
    /\ xdedup = <<>>
    /\ xfiltered = <<>>
    /\ xmergeIn = <<>>
    /\ xschemes = <<>>
    /\ xmerged = <<>>

\* the validation loop returns normally
XValidateOk ==
    /\ xstage = "raw"
    /\ ~ValidateQuestions(xraw).thrown
    /\ xquestions' = ValidateQuestions(xraw).value
    /\ xstage' = "validated"
    /\ UNCHANGED <<xraw, xdedup, xfiltered, xmergeIn, xschemes, xmerged>>

\* the validation loop throws: extractQuestionsFromPDF rethrows
XValidateThrow ==
    /\ xstage = "raw"
    /\ ValidateQuestions(xraw).thrown
    /\ xstage' = "thrown"
    /\ UNCHANGED <<xraw, xquestions, xdedup, xfiltered, xmergeIn, xschemes, xmerged>>

XDeduplicate ==
    /\ xstage = "validated"
    /\ xdedup' = Deduplicate(xquestions)
    /\ xstage' = "deduplicated"
    /\ UNCHANGED <<xraw, xquestions, xfiltered, xmergeIn, xschemes, xmerged>>

XFilter ==
    /\ xstage = "deduplicated"
    /\ xfiltered' = FilterZeroMarkParents(xdedup)
    /\ xstage' = "filtered"
    /\ UNCHANGED <<xraw, xquestions, xdedup, xmergeIn, xschemes, xmerged>>

\* ingestPaper step 3: the extraction result is merged with a mark-scheme list
XMerge ==
    /\ xstage = "filtered"
    /\ \E mss \in ExtractSchemeLists :
        /\ xschemes' = mss
        /\ xmergeIn' = xfiltered
        /\ xmerged' = mergeQuestionsWithMarkSchemes(xfiltered, mss)
    /\ xstage' = "merged"
    /\ UNCHANGED <<xraw, xquestions, xdedup, xfiltered>>

\* mergeQuestionsWithMarkSchemes called on its own with any question list
XMergeDirect ==
    /\ xstage = "raw"
    /\ \E mss \in ExtractSchemeLists :
        /\ xschemes' = mss
        /\ xmergeIn' = xraw
        /\ xmerged' = mergeQuestionsWithMarkSchemes(xraw, mss)
    /\ xstage' = "mergedDirect"
    /\ UNCHANGED <<xraw, xquestions, xdedup, xfiltered>>

-----------------------------------------------------------------------------
(* The ingestion orchestrator: ingestAllPapers and ingestPaper.            *)

MaxCalls == 3
LongPaperPages == 12
ShortPaperPages == 6
MarkSchemePages == 8

\* while (!parseSuccess && retryCount < 2)
MS_PARSE_ATTEMPTS == 2
\* const batchSize = 100
batchSize == 100

\* What discoverPapers returns for the files on disk: every set has both its
\* files, and the list is sorted by year descending, then paper ascending.
Papers ==
    <<[year |-> 2024, paper |-> "Paper 12"], [year |-> 2023, paper |-> "Paper 21"]>>

\* getPageCount() of the question paper of the p-th set: the first is a
\* two-chunk document, the others fit one chunk
QuestionPaperPages(p) == IF p = 1 THEN LongPaperPages ELSE ShortPaperPages

\* a loop over every discovered set, whatever the mode
papersToProcessAll(tm) == Papers

\* const papersToProcess = testMode ? papers.slice(0, 1) : papers
papersToProcess(tm) == IF tm THEN SubSeq(Papers, 1, 1) ELSE Papers

Q1a == <<"1", "(", "a", ")">>
Q1b == <<"1", "(", "b", ")">>
Q1bi == <<"1", "(", "b", ")", "(", "i", ")">>

NoImage == "null"
CroppedImage == "/questions/image.png"

\* What JSON.parse can yield for a chunk of a question paper: the first chunk
\* holds 1(a), the later one the stem 1(b) and its part 1(b)(i); the response
\* may leave marks null or lack a field.
QuestionResponses(chunkNo) ==
    IF chunkNo = 0
    THEN {<<Question(Q1a, Num(3), "t", "Waves", FALSE)>>,
          <<Question(Q1a, Num(3), "", "Waves", FALSE)>>}
    ELSE {<<Question(Q1b, Num(0), "t", "Waves", FALSE),
            Question(Q1bi, Num(2), "t", "Waves", FALSE)>>,
          <<Question(Q1b, Null, "t", "Waves", FALSE),
            Question(Q1bi, Num(2), "t", "Waves", FALSE)>>,
          <<Question(Q1b, Num(0), "t", "Waves", FALSE),
            Question(Q1bi, NotANumber, "t", "Waves", FALSE)>>}

\* Likewise for a chunk of a mark scheme.
MarkSchemeResponses(chunkNo) ==
    {<<MarkScheme(Q1a, "m", Undefined), MarkScheme(Q1bi, "m", Undefined)>>,
     <<MarkScheme(Q1a, "m", Undefined), MarkScheme(Q1bi, "", Undefined)>>}

questionExistsById(rows, year, paper, questionNumber) ==
    \E row \in rows : row.id = <<year, paper, questionNumber>>

questionExistsNever(rows, year, paper, questionNumber) == FALSE

\* prisma.question.findFirst({ where: { year, paper, questionNumber } })
questionExists(rows, year, paper, questionNumber) ==
    \E row \in rows :
        /\ row.year = year
        /\ row.paper = paper
        /\ row.questionNumber = questionNumber

\* the row prisma.question.create returns; its id is generated and fresh: the
\* n-th row ever created under a natural key is given the id <<key, n>>
CreatedRow(year, paper, q, imageUrl, n) ==
    [id |-> <<year, paper, q.questionNumber, n>>,
     year |-> year, paper |-> paper, questionNumber |-> q.questionNumber,
     markScheme |-> q.markScheme, imageUrl |-> imageUrl]

\* savedQuestions.map((q, idx) => ({ id: q.id, values, metadata }))
VectorOf(row) ==
    [id |-> row.id, year |-> row.year, paper |-> row.paper,
     questionNumber |-> row.questionNumber]

\* index.upsert(batch): a record with a known id is overwritten
IndexUpsert(idx, batch) ==
    {v \in idx : \A k \in 1..Len(batch) : batch[k].id # v.id} \cup Range(batch)

\* Math.ceil(vectors.length / batchSize)
NumBatches(vectors) == (Len(vectors) + batchSize - 1) \div batchSize

\* vectors.slice(i, i + batchSize) of the k-th round of upsertVectors' loop
VectorBatch(vectors, k) ==
    SubSeq(vectors, (k - 1) * batchSize + 1, Min(k * batchSize, Len(vectors)))

\* the index after the first n batches of upsertVectors were sent
RECURSIVE IndexAfterBatches(_, _, _)
IndexAfterBatches(idx, vectors, n) ==
    IF n = 0 THEN idx
    ELSE IndexUpsert(IndexAfterBatches(idx, vectors, n - 1), VectorBatch(vectors, n))

DbAfterCatchRollback(rows, saved) == rows \ Range(saved)

\* ingestPaper's catch block: console.error, throw error; nothing is undone
DbAfterCatch(rows, saved) == rows

OuterCatchAlwaysRethrows(tm) == TRUE

\* ingestAllPapers' catch block: if (testMode) throw error
OuterCatchRethrows(tm) == tm

NoCall ==
    /\ chunkStart = 0
    /\ retryCount = 0
    /\ allQuestions = <<>>
    /\ allMarkSchemes = <<>>
    /\ questions = <<>>
    /\ markSchemes = <<>>
    /\ mergedQuestions = <<>>
    /\ newQuestions = <<>>
    /\ savedQuestions = <<>>
    /\ exhausted = FALSE

\* the locals of a call of ingestPaper as the call starts, and after it ends
ResetCall ==
    /\ chunkStart' = 0
    /\ retryCount' = 0
    /\ allQuestions' = <<>>
    /\ allMarkSchemes' = <<>>
    /\ questions' = <<>>
    /\ markSchemes' = <<>>
    /\ mergedQuestions' = <<>>
    /\ newQuestions' = <<>>
    /\ savedQuestions' = <<>>
    /\ exhausted' = FALSE

OrchInit ==
    /\ callCount = 0
    /\ runState = "idle"
    /\ testMode = FALSE
    /\ paperIdx = 1
    /\ pc = "loop"
    /\ NoCall
    /\ db = {}
    /\ created = [key \in {} |-> 0]
    /\ index = {}
    /\ calls = <<>>
    /\ prev = [p \in 1..Len(Papers) |-> [outcome |-> "none", merged |-> <<>>]]
    /\ cleared = [p \in 1..Len(Papers) |-> FALSE]

current == Papers[paperIdx]

\* ingestAllPapers(testMode) is started: discovery, then the for loop
StartRun ==
    /\ runState # "running"
    /\ callCount < MaxCalls
    /\ runState' = "running"
    /\ \E tm \in BOOLEAN : testMode' = tm
    /\ paperIdx' = 1
    /\ pc' = "loop"
    /\ calls' = <<>>
    /\ UNCHANGED <<callVars, storeVars, callCount, prev, cleared>>

\* the for loop calls ingestPaper(paper); extractQuestionsFromPDF starts
IngestPaperStart ==
    /\ runState = "running"
    /\ pc = "loop"
    /\ paperIdx <= Len(papersToProcess(testMode))
    /\ callCount < MaxCalls
    /\ callCount' = callCount + 1
    /\ calls' = Append(calls, paperIdx)
    /\ pc' = "extractQ"
    /\ ResetCall
    /\ UNCHANGED <<storeVars, runState, testMode, paperIdx, prev, cleared>>

\* the for loop is over: prisma.$disconnect(), ingestAllPapers returns
RunFinish ==
    /\ runState = "running"
    /\ pc = "loop"
    /\ paperIdx > Len(papersToProcess(testMode))
    /\ runState' = "finished"
    /\ UNCHANGED <<pc, callVars, storeVars, callCount, testMode, paperIdx, calls, prev,
                   cleared>>

-----------------------------------------------------------------------------
(* extractQuestionsFromPDF: one generation call per chunk, no retry.       *)

\* model.generateContent throws: the error leaves extractQuestionsFromPDF
ExtractQGenerateThrows ==
    /\ pc = "extractQ"
    /\ ChunkLoopContinues(chunkStart, QuestionPaperPages(paperIdx))
    /\ exhausted' = TRUE
    /\ pc' = "throwing"
    /\ UNCHANGED <<chunkStart, retryCount, allQuestions, allMarkSchemes, questions,
                   markSchemes, mergedQuestions, newQuestions, savedQuestions,
                   storeVars, runVars>>

\* JSON.parse throws: the catch logs the error and the loop goes on
ExtractQParseFails ==
    /\ pc = "extractQ"
    /\ ChunkLoopContinues(chunkStart, QuestionPaperPages(paperIdx))
    /\ exhausted' = TRUE
    /\ chunkStart' = ChunkNextStart(chunkStart, CHUNK_SIZE)
    /\ UNCHANGED <<pc, retryCount, allQuestions, allMarkSchemes, questions,
                   markSchemes, mergedQuestions, newQuestions, savedQuestions,
                   storeVars, runVars>>

\* the response parses: allQuestions.push(...chunkQuestions)
ExtractQChunkOk ==
    /\ pc = "extractQ"
    /\ ChunkLoopContinues(chunkStart, QuestionPaperPages(paperIdx))
    /\ \E response \in QuestionResponses(chunkStart \div CHUNK_SIZE) :
          allQuestions' = allQuestions \o response
    /\ chunkStart' = ChunkNextStart(chunkStart, CHUNK_SIZE)
    /\ UNCHANGED <<pc, retryCount, allMarkSchemes, questions, markSchemes,
                   mergedQuestions, newQuestions, savedQuestions, exhausted,
                   storeVars, runVars>>

\* after the loop the validation throws
ExtractQValidateThrows ==
    /\ pc = "extractQ"
    /\ ~ChunkLoopContinues(chunkStart, QuestionPaperPages(paperIdx))
    /\ ValidateQuestions(allQuestions).thrown
    /\ pc' = "throwing"
    /\ UNCHANGED <<callVars, storeVars, runVars>>

\* after the loop: validation, deduplication, filter, return; ingestPaper
\* waits and starts extractMarkSchemeFromPDF
ExtractQReturn ==
    /\ pc = "extractQ"
    /\ ~ChunkLoopContinues(chunkStart, QuestionPaperPages(paperIdx))
    /\ ~ValidateQuestions(allQuestions).thrown
    /\ questions' =
          FilterZeroMarkParents(Deduplicate(ValidateQuestions(allQuestions).value))
    /\ allQuestions' = <<>>
    /\ pc' = "extractMS"
    /\ chunkStart' = 0
    /\ retryCount' = 0
    /\ UNCHANGED <<allMarkSchemes, markSchemes, mergedQuestions, newQuestions,
                   savedQuestions, exhausted, storeVars, runVars>>

-----------------------------------------------------------------------------
(* extractMarkSchemeFromPDF: per chunk, a while loop of generation         *)
(* attempts; generateWithRetry is called inside its try block.             *)

\* the attempt parses: allMarkSchemes.push(...chunkSchemes), next chunk
ExtractMSAttemptOk ==
    /\ pc = "extractMS"
    /\ ChunkLoopContinues(chunkStart, MarkSchemePages)
    /\ retryCount < MS_PARSE_ATTEMPTS
    /\ \E response \in MarkSchemeResponses(chunkStart \div CHUNK_SIZE) :
          allMarkSchemes' = allMarkSchemes \o response
    /\ chunkStart' = ChunkNextStart(chunkStart, CHUNK_SIZE)
    /\ retryCount' = 0
    /\ UNCHANGED <<pc, allQuestions, questions, markSchemes, mergedQuestions,
                   newQuestions, savedQuestions, exhausted, storeVars, runVars>>

\* generateWithRetry or JSON.parse throws, the catch counts the attempt and
\* another attempt is left: wait, then generate again
ExtractMSAttemptFailsRetry ==
    /\ pc = "extractMS"
    /\ ChunkLoopContinues(chunkStart, MarkSchemePages)
    /\ retryCount + 1 < MS_PARSE_ATTEMPTS
    /\ retryCount' = retryCount + 1
    /\ UNCHANGED <<pc, chunkStart, allQuestions, allMarkSchemes, questions,
                   markSchemes, mergedQuestions, newQuestions, savedQuestions,
                   exhausted, storeVars, runVars>>

\* the same on the last attempt: the while loop ends with nothing pushed and
\* the for loop goes on to the next chunk
ExtractMSAttemptFailsGiveUp ==
    /\ pc = "extractMS"
    /\ ChunkLoopContinues(chunkStart, MarkSchemePages)
    /\ retryCount < MS_PARSE_ATTEMPTS
    /\ retryCount + 1 >= MS_PARSE_ATTEMPTS
    /\ exhausted' = TRUE
    /\ chunkStart' = ChunkNextStart(chunkStart, CHUNK_SIZE)
    /\ retryCount' = 0
    /\ UNCHANGED <<pc, allQuestions, allMarkSchemes, questions, markSchemes,
                   mergedQuestions, newQuestions, savedQuestions, storeVars, runVars>>

\* after the loop the validation throws
ExtractMSValidateThrows ==
    /\ pc = "extractMS"
    /\ ~ChunkLoopContinues(chunkStart, MarkSchemePages)
    /\ ValidateMarkSchemes(allMarkSchemes).thrown
    /\ pc' = "throwing"
    /\ UNCHANGED <<callVars, storeVars, runVars>>

\* after the loop the validation passes and the list is returned
ExtractMSReturn ==
    /\ pc = "extractMS"
    /\ ~ChunkLoopContinues(chunkStart, MarkSchemePages)
    /\ ~ValidateMarkSchemes(allMarkSchemes).thrown
    /\ markSchemes' = ValidateMarkSchemes(allMarkSchemes).value
    /\ allMarkSchemes' = <<>>
    /\ chunkStart' = 0
    /\ pc' = "merge"
    /\ UNCHANGED <<retryCount, allQuestions, questions, mergedQuestions, newQuestions,
                   savedQuestions, exhausted, storeVars, runVars>>

-----------------------------------------------------------------------------
(* ingestPaper, steps 3 to 7.                                              *)

\* step 3
Merge ==
    /\ pc = "merge"
    /\ mergedQuestions' = mergeQuestionsWithMarkSchemes(questions, markSchemes)
    /\ pc' = "filter"
    /\ UNCHANGED <<chunkStart, retryCount, allQuestions, allMarkSchemes, questions,
                   markSchemes, newQuestions, savedQuestions, exhausted,
                   storeVars, runVars>>

\* step 4: the questions whose natural key is not in the table; with none
\* left ingestPaper returns
Filter ==
    /\ pc = "filter"
    /\ newQuestions' =
          SelectSeq(mergedQuestions,
                    LAMBDA q : ~questionExists(db, current.year, current.paper,
                                               q.questionNumber))
    /\ pc' = IF newQuestions' = <<>> THEN "complete" ELSE "persist"
    /\ UNCHANGED <<chunkStart, retryCount, allQuestions, allMarkSchemes, questions,
                   markSchemes, mergedQuestions, savedQuestions, exhausted,
                   storeVars, runVars>>

nextQuestion == newQuestions[Len(savedQuestions) + 1]

\* step 5, one round: the figure is cropped (or not: cropAndSaveImage returns
\* null), the row is created
PersistCreate ==
    /\ pc = "persist"
    /\ Len(savedQuestions) < Len(newQuestions)
    /\ LET q == nextQuestion
           key == <<current.year, current.paper, q.questionNumber>>
           n == IF key \in DOMAIN created THEN created[key] + 1 ELSE 1
       IN  \E imageUrl \in (IF q.hasImage THEN {NoImage, CroppedImage} ELSE {NoImage}) :
             LET row == CreatedRow(current.year, current.paper, q, imageUrl, n)
             IN  /\ db' = db \cup {row}
                 /\ created' = [k \in DOMAIN created \cup {key} |->
                                   IF k = key THEN n ELSE created[k]]
                 /\ savedQuestions' = Append(savedQuestions, row)
    /\ UNCHANGED <<pc, chunkStart, retryCount, allQuestions, allMarkSchemes, questions,
                   markSchemes, mergedQuestions, newQuestions, exhausted, index,
                   runVars>>

\* step 5, one round: prisma.question.create throws
PersistCreateThrows ==
    /\ pc = "persist"
    /\ Len(savedQuestions) < Len(newQuestions)
    /\ pc' = "throwing"
    /\ UNCHANGED <<callVars, storeVars, runVars>>

\* step 5 is over; step 6: generateEmbeddings returns
Embed ==
    /\ pc = "persist"
    /\ Len(savedQuestions) = Len(newQuestions)
    /\ pc' = "upsert"
    /\ UNCHANGED <<callVars, storeVars, runVars>>

\* step 6: generateEmbeddings throws
EmbedThrows ==
    /\ pc = "persist"
    /\ Len(savedQuestions) = Len(newQuestions)
    /\ pc' = "throwing"
    /\ UNCHANGED <<callVars, storeVars, runVars>>

vectors == [k \in 1..Len(savedQuestions) |-> VectorOf(savedQuestions[k])]

\* step 7: upsertVectors sends every batch and returns
UpsertOk ==
    /\ pc = "upsert"
    /\ index' = IndexAfterBatches(index, vectors, NumBatches(vectors))
    /\ pc' = "complete"
    /\ UNCHANGED <<callVars, db, created, runVars>>

\* step 7: index.upsert throws on batch k; the batches before it were sent
UpsertThrows ==
    /\ pc = "upsert"
    /\ \E k \in 1..NumBatches(vectors) :
          index' = IndexAfterBatches(index, vectors, k - 1)
    /\ pc' = "throwing"
    /\ UNCHANGED <<callVars, db, created, runVars>>

\* ingestPaper's catch block logs and rethrows
IngestPaperCatch ==
    /\ pc = "throwing"
    /\ db' = DbAfterCatch(db, savedQuestions)
    /\ allQuestions' = <<>>
    /\ allMarkSchemes' = <<>>
    /\ chunkStart' = 0
    /\ retryCount' = 0
    /\ pc' = "failed"
    /\ UNCHANGED <<questions, markSchemes, mergedQuestions, newQuestions, savedQuestions,
                   exhausted, created, index, runVars>>

Ended(outcome) ==
    /\ prev' = [prev EXCEPT ![paperIdx] =
                   [outcome |-> outcome,
                    merged |-> [k \in 1..Len(mergedQuestions) |->
                                   mergedQuestions[k].questionNumber]]]
    /\ cleared' = [cleared EXCEPT ![paperIdx] = FALSE]

\* ingestPaper returned: the for loop waits and goes on
IngestPaperReturns ==
    /\ pc = "complete"
    /\ Ended("complete")
    /\ paperIdx' = paperIdx + 1
    /\ pc' = "loop"
    /\ ResetCall
    /\ UNCHANGED <<storeVars, callCount, runState, testMode, calls>>

\* ingestPaper threw, not in test mode: the for loop goes on
OuterCatchContinues ==
    /\ pc = "failed"
    /\ ~OuterCatchRethrows(testMode)
    /\ Ended("failed")
    /\ paperIdx' = paperIdx + 1
    /\ pc' = "loop"
    /\ ResetCall
    /\ UNCHANGED <<storeVars, callCount, runState, testMode, calls>>

\* ingestPaper threw, in test mode: ingestAllPapers throws
OuterCatchThrows ==
    /\ pc = "failed"
    /\ OuterCatchRethrows(testMode)
    /\ Ended("failed")
    /\ runState' = "thrown"
    /\ pc' = "loop"
    /\ ResetCall
    /\ UNCHANGED <<storeVars, callCount, testMode, paperIdx, calls>>

\* the clear script, run between two ingestions: deleteMany for 2024 Paper 12
clearPaperQuestions ==
    /\ runState \in {"finished", "thrown"}
    /\ callCount < MaxCalls
    /\ \E row \in db : row.year = 2024 /\ row.paper = "Paper 12"
    /\ db' = {row \in db : ~(row.year = 2024 /\ row.paper = "Paper 12")}
    /\ cleared' = [p \in 1..Len(Papers) |->
                      IF Papers[p] = [year |-> 2024, paper |-> "Paper 12"]
                      THEN TRUE ELSE cleared[p]]
    /\ UNCHANGED <<pc, callVars, created, index, callCount, runState, testMode, paperIdx,
                   calls, prev>>

OrchNext ==
    \/ StartRun /\ UNCHANGED <<chunkVars, extractVars, otherVars>>
    \/ IngestPaperStart /\ UNCHANGED <<chunkVars, extractVars, otherVars>>
    \/ RunFinish /\ UNCHANGED <<chunkVars, extractVars, otherVars>>
    \/ ExtractQGenerateThrows /\ UNCHANGED <<chunkVars, extractVars, otherVars>>
    \/ ExtractQParseFails /\ UNCHANGED <<chunkVars, extractVars, otherVars>>
    \/ ExtractQChunkOk /\ UNCHANGED <<chunkVars, extractVars, otherVars>>
    \/ ExtractQValidateThrows /\ UNCHANGED <<chunkVars, extractVars, otherVars>>
    \/ ExtractQReturn /\ UNCHANGED <<chunkVars, extractVars, otherVars>>
    \/ ExtractMSAttemptOk /\ UNCHANGED <<chunkVars, extractVars, otherVars>>
    \/ ExtractMSAttemptFailsRetry /\ UNCHANGED <<chunkVars, extractVars, otherVars>>
    \/ ExtractMSAttemptFailsGiveUp /\ UNCHANGED <<chunkVars, extractVars, otherVars>>
    \/ ExtractMSValidateThrows /\ UNCHANGED <<chunkVars, extractVars, otherVars>>
    \/ ExtractMSReturn /\ UNCHANGED <<chunkVars, extractVars, otherVars>>
    \/ Merge /\ UNCHANGED <<chunkVars, extractVars, otherVars>>
    \/ Filter /\ UNCHANGED <<chunkVars, extractVars, otherVars>>
    \/ PersistCreate /\ UNCHANGED <<chunkVars, extractVars, otherVars>>
    \/ PersistCreateThrows /\ UNCHANGED <<chunkVars, extractVars, otherVars>>
    \/ Embed /\ UNCHANGED <<chunkVars, extractVars, otherVars>>
    \/ EmbedThrows /\ UNCHANGED <<chunkVars, extractVars, otherVars>>
    \/ UpsertOk /\ UNCHANGED <<chunkVars, extractVars, otherVars>>
    \/ UpsertThrows /\ UNCHANGED <<chunkVars, extractVars, otherVars>>
    \/ IngestPaperCatch /\ UNCHANGED <<chunkVars, extractVars, otherVars>>
    \/ IngestPaperReturns /\ UNCHANGED <<chunkVars, extractVars, otherVars>>
    \/ OuterCatchContinues /\ UNCHANGED <<chunkVars, extractVars, otherVars>>
    \/ OuterCatchThrows /\ UNCHANGED <<chunkVars, extractVars, otherVars>>
    \/ clearPaperQuestions /\ UNCHANGED <<chunkVars, extractVars, otherVars>>

-----------------------------------------------------------------------------
(* Figure data.  Both chunked extraction functions send one chunk of the   *)
(* paper per request, so the pageNumber of a response counts pages of the  *)
(* chunk, from 1.  A record is modelled by its three figure fields; the    *)
(* absent (null, undefined) bounding box is NoBox and the absent page      *)
(* number is NoPage, which is all the truthiness tests of the code look    *)
(* at.  startPage and relPage are history fields: the chunk the record     *)
(* came from and the page number as the response reported it.              *)
(* parseStructuredPaper runs the same statements on the question, on each  *)
(* part and on each sub-part; a record of the model stands for any of the  *)
(* three.                                                                  *)

FigurePages == 12
SmallFigurePages == 4

\* const CHUNK_SIZE = 5 of parseStructuredPaper
STRUCTURED_CHUNK_SIZE == 5
\* (ymax - ymin) >= 20 && (xmax - xmin) >= 20
MIN_REGION_SPAN == 20
\* ymax <= 1000 && xmax <= 1000
REGION_SCALE == 1000

NoBox == <<>>
NoPage == 0

\* [ymin, xmin, ymax, xmax]: a good box, ymax = ymin, xmax < xmin, a vertical
\* span of 10, a box beyond the scale
FigureBoxes == {<<100, 100, 500, 500>>, <<500, 100, 500, 500>>,
                <<100, 500, 500, 400>>, <<100, 100, 110, 500>>,
                <<0, 0, 1001, 500>>}

FigureParsers == {"extractQuestionsFromPDF", "parseStructuredPaper"}

FigureChunkSize(parser) ==
    IF parser = "parseStructuredPaper" THEN STRUCTURED_CHUNK_SIZE ELSE CHUNK_SIZE

\* the condition whose negation rejects the box in parseStructuredPaper
ValidRegion(box) ==
    /\ box[1] >= 0 /\ box[2] >= 0
    /\ box[3] <= REGION_SCALE /\ box[4] <= REGION_SCALE
    /\ box[3] > box[1] /\ box[4] > box[2]
    /\ (box[3] - box[1]) >= MIN_REGION_SPAN /\ (box[4] - box[2]) >= MIN_REGION_SPAN

FigureRecord(hasImage, box, page, startPage) ==
    [hasImage |-> hasImage, box |-> box, pageNumber |-> page,
     startPage |-> startPage, relPage |-> page]

\* parseStructuredPaper: if (q.pageNumber) q.pageNumber += startPage, then the
\* bounding box check
SanitiseFigure(rec, startPage) ==
    LET moved == IF rec.pageNumber # NoPage
                 THEN [rec EXCEPT !.pageNumber = rec.pageNumber + startPage]
                 ELSE rec
    IN IF moved.hasImage /\ moved.box # NoBox /\ ~ValidRegion(moved.box)
       THEN [moved EXCEPT !.hasImage = FALSE, !.box = NoBox, !.pageNumber = NoPage]
       ELSE moved

\* what a parser pushes to allQuestions for a record of a chunk's response:
\* extractQuestionsFromPDF pushes the parsed records as they are
PushedRecord(parser, rec, startPage) ==
    IF parser = "parseStructuredPaper" THEN SanitiseFigure(rec, startPage) ELSE rec

\* the page numbers a response reports: none, the chunk's first or last page
ReportedPages(startPage, pages, size) ==
    {NoPage, 1, ChunkEndPage(startPage, size, pages) - startPage}

FigureInit ==
    /\ fparser \in FigureParsers
    /\ fpages \in {SmallFigurePages, FigurePages}
    /\ fstart = 0
    /\ fout = <<>>
    /\ fstage = "chunks"
    /\ fnext = 1
    /\ fcrops = <<>>

FigureIdle ==
    /\ fparser = "extractQuestionsFromPDF"
    /\ fpages = 0
    /\ fstart = 0
    /\ fout = <<>>
    /\ fstage = "idle"
    /\ fnext = 1
    /\ fcrops = <<>>

\* one chunk whose response parses to one record
FigureChunkOk ==
    /\ fstage = "chunks"
    /\ ChunkLoopContinues(fstart, fpages)
    /\ \E hasImage \in BOOLEAN, box \in FigureBoxes \cup {NoBox},
          page \in ReportedPages(fstart, fpages, FigureChunkSize(fparser)) :
          fout' = Append(fout, PushedRecord(fparser,
                                 FigureRecord(hasImage, box, page, fstart), fstart))
    /\ fstart' = ChunkNextStart(fstart, FigureChunkSize(fparser))
    /\ UNCHANGED <<fparser, fpages, fstage, fnext, fcrops>>

\* one chunk whose response does not parse: the error is caught and logged
FigureChunkFails ==
    /\ fstage = "chunks"
    /\ ChunkLoopContinues(fstart, fpages)
    /\ fstart' = ChunkNextStart(fstart, FigureChunkSize(fparser))
    /\ UNCHANGED <<fparser, fpages, fout, fstage, fnext, fcrops>>

\* the chunk loop exits and the function returns its records
FigureReturn ==
    /\ fstage = "chunks"
    /\ ~ChunkLoopContinues(fstart, fpages)
    /\ fstage' = "returned"
    /\ UNCHANGED <<fparser, fpages, fstart, fout, fnext, fcrops>>

\* ingestPaper: if (q.hasImage && q.figureBoundingBox && q.pageNumber)
WantsCrop(q) == q.hasImage /\ q.box # NoBox /\ q.pageNumber # NoPage

\* ingestPaper's loop over the records of extractQuestionsFromPDF: the call
\* cropAndSaveImage(questionPaperPath, q.pageNumber, q.figureBoundingBox, ...)
FigureCropCall ==
    /\ fstage = "returned"
    /\ fparser = "extractQuestionsFromPDF"
    /\ fnext <= Len(fout)
    /\ WantsCrop(fout[fnext])
    /\ fcrops' = Append(fcrops, fout[fnext])
    /\ fnext' = fnext + 1
    /\ UNCHANGED <<fparser, fpages, fstart, fout, fstage>>

FigureCropSkip ==
    /\ fstage = "returned"
    /\ fparser = "extractQuestionsFromPDF"
    /\ fnext <= Len(fout)
    /\ ~WantsCrop(fout[fnext])
    /\ fnext' = fnext + 1
    /\ UNCHANGED <<fparser, fpages, fstart, fout, fstage, fcrops>>

-----------------------------------------------------------------------------
(* cropAndSaveImage.  The repository holds two implementations: one        *)
(* renders with mupdf and crops with sharp, in whole pixels, with padding  *)
(* and clamping ("sharp"); the one ingest-pipeline.ts imports from         *)
(* lib/rag/pdf-image.ts draws on a canvas, in fractional pixels, without   *)
(* either ("canvas").  Arithmetic is exact: a result rectangle is kept in  *)
(* units of 1/unit pixel, unit 1 for sharp and 1000 for canvas.            *)

\* const PADDING_PERCENT = 2
PADDING_PERCENT == 2

CropVersions == {"sharp", "canvas"}
PageWidths == {1, 7, 1190}
PageHeights == {1, 9, 1684}
\* coordinates on the 0-1000 scale, in any order
RegionCoords == {0, 1, 20, 500, 980, 999, 1000}

Max(a, b) == IF a > b THEN a ELSE b

\* Math.round(a / b) for b > 0: halves round towards plus infinity
Round(a, b) == (2 * a + b) \div (2 * b)

NullResult == [kind |-> "null", left |-> 0, top |-> 0, width |-> 0, height |-> 0, unit |-> 1]
PendingResult == [NullResult EXCEPT !.kind = "pending"]

ClampToPageNone(size, limit, offset) == size

\* cropWidth = Math.min(cropWidth, width - left)
ClampToPage(size, limit, offset) == Min(size, limit - offset)

\* the sharp implementation, from the bounding box to the extract() rectangle
CropSharp(box, width, height) ==
    LET ymin == box[1]
        xmin == box[2]
        ymax == box[3]
        xmax == box[4]
        xPadding == Round((xmax - xmin) * PADDING_PERCENT, 100)
        yPadding == Round((ymax - ymin) * PADDING_PERCENT, 100)
        left == Max(0, Round(xmin * width, REGION_SCALE) - xPadding)
        top == Max(0, Round(ymin * height, REGION_SCALE) - yPadding)
        cropWidth == ClampToPage(Round((xmax - xmin) * width, REGION_SCALE) + 2 * xPadding,
                                 width, left)
        cropHeight == ClampToPage(Round((ymax - ymin) * height, REGION_SCALE) + 2 * yPadding,
                                  height, top)
    IN IF cropWidth <= 0 \/ cropHeight <= 0
       THEN NullResult
       ELSE [kind |-> "rect", left |-> left, top |-> top, width |-> cropWidth,
             height |-> cropHeight, unit |-> 1]

\* the canvas implementation: x, y, w, h in thousandths of a pixel
CropCanvas(box, width, height) ==
    LET x == box[2] * width
        y == box[1] * height
        w == (box[4] - box[2]) * width
        h == (box[3] - box[1]) * height
    IN IF w <= 0 \/ h <= 0
       THEN NullResult
       ELSE [kind |-> "rect", left |-> x, top |-> y, width |-> w, height |-> h,
             unit |-> REGION_SCALE]

CropRectangle(version, box, width, height) ==
    IF version = "sharp" THEN CropSharp(box, width, height)
    ELSE CropCanvas(box, width, height)

\* a new question with hasImage true reaches step 5 of ingestPaper: with
\* its region and page number the call is made, without one of them it is not
CropInit ==
    /\ cversion \in CropVersions
    /\ cwidth \in PageWidths
    /\ cheight \in PageHeights
    /\ cbox \in [1..4 -> RegionCoords]
    /\ cpageOk \in BOOLEAN
    /\ cfigure \in {"complete", "noRegion", "noPage"}
    /\ cfigure # "complete" => (cwidth = 1 /\ cheight = 1 /\ cbox = <<0, 0, 0, 0>> /\ ~cpageOk)
    /\ cresult = PendingResult
    /\ csaved = "pending"

CropIdle ==
    /\ cversion = "canvas"
    /\ cwidth = 1
    /\ cheight = 1
    /\ cbox = <<0, 0, 0, 0>>
    /\ cpageOk = FALSE
    /\ cresult = NullResult
    /\ cfigure = "complete"
    /\ csaved = "pending"

\* if (q.hasImage && q.figureBoundingBox && q.pageNumber), for a question
\* with hasImage true
CropCalled == cfigure = "complete"

SavedImageUrlAlways(result) == CroppedImage

\* imageUrl as prisma.question.create receives it: the url cropAndSaveImage
\* returned, or null
SavedImageUrl(result) == IF result.kind = "rect" THEN CroppedImage ELSE NoImage

\* the page number is not a page of the document: return null
CropInvalidPage ==
    /\ CropCalled
    /\ cresult.kind = "pending"
    /\ ~cpageOk
    /\ cresult' = NullResult
    /\ UNCHANGED <<cversion, cwidth, cheight, cbox, cpageOk, cfigure, csaved>>

\* "Invalid crop dimensions": return null
CropInvalidDimensions ==
    /\ CropCalled
    /\ cresult.kind = "pending"
    /\ cpageOk
    /\ CropRectangle(cversion, cbox, cwidth, cheight).kind = "null"
    /\ cresult' = NullResult
    /\ UNCHANGED <<cversion, cwidth, cheight, cbox, cpageOk, cfigure, csaved>>

\* the rectangle is extracted and saved
CropExtract ==
    /\ CropCalled
    /\ cresult.kind = "pending"
    /\ cpageOk
    /\ CropRectangle(cversion, cbox, cwidth, cheight).kind = "rect"
    /\ cresult' = CropRectangle(cversion, cbox, cwidth, cheight)
    /\ UNCHANGED <<cversion, cwidth, cheight, cbox, cpageOk, cfigure, csaved>>

\* rendering, extracting or writing throws: the catch returns null
CropThrows ==
    /\ CropCalled
    /\ cresult.kind = "pending"
    /\ cresult' = NullResult
    /\ UNCHANGED <<cversion, cwidth, cheight, cbox, cpageOk, cfigure, csaved>>

\* ingestPaper goes on after the call, or after the if it did not enter:
\* prisma.question.create({ data: { ..., imageUrl } })
CropPersist ==
    /\ cresult.kind # "pending" \/ ~CropCalled
    /\ csaved = "pending"
    /\ csaved' = SavedImageUrl(cresult)
    /\ UNCHANGED <<cversion, cwidth, cheight, cbox, cpageOk, cresult, cfigure>>

-----------------------------------------------------------------------------
(* upsertVectors, one sub-batch at a time.  A vector stands by its id; the *)
(* ids of one call are distinct.                                           *)

MaxVectors == 250

\* the error index.upsert rejects with: it says nothing about sub-batches
NoBatch == 0
ProviderError == [source |-> "index.upsert", batch |-> NoBatch]
NoError == [source |-> "none", batch |-> NoBatch]

UpsertSliceToEnd(vs, i) == SubSeq(vs, i + 1, Len(vs))

\* vectors.slice(i, i + batchSize)
UpsertSlice(vs, i) == SubSeq(vs, i + 1, Min(i + batchSize, Len(vs)))

\* Math.floor(i / batchSize) + 1
BatchNumber(i) == (i \div batchSize) + 1

UpsertInit ==
    /\ uvectors \in {[k \in 1..n |-> k] : n \in 0..MaxVectors}
    /\ ui = 0
    /\ ubatch = <<>>
    /\ uindex = {}
    /\ ustate = "running"
    /\ uerror = NoError
    /\ uevents = <<>>
    /\ ufailed = 0

UpsertIdle ==
    /\ uvectors = <<>>
    /\ ui = 0
    /\ ubatch = <<>>
    /\ uindex = {}
    /\ ustate = "idle"
    /\ uerror = NoError
    /\ uevents = <<>>
    /\ ufailed = 0

\* the loop body up to the await: index.upsert(batch) is called
UpsertSend ==
    /\ ustate = "running"
    /\ ubatch = <<>>
    /\ ui < Len(uvectors)
    /\ ubatch' = UpsertSlice(uvectors, ui)
    /\ uevents' = Append(uevents, <<"send", BatchNumber(ui)>>)
    /\ UNCHANGED <<uvectors, ui, uindex, ustate, uerror, ufailed>>

\* the await resolves: the batch is in the index, i += batchSize
UpsertBatchReturns ==
    /\ ustate = "running"
    /\ ubatch # <<>>
    /\ uindex' = uindex \cup Range(ubatch)
    /\ uevents' = Append(uevents, <<"return", BatchNumber(ui)>>)
    /\ ui' = ui + batchSize
    /\ ubatch' = <<>>
    /\ UNCHANGED <<uvectors, ustate, uerror, ufailed>>

\* the await rejects: nothing in upsertVectors catches, so the loop ends and
\* the caller receives the provider's error; the provider may or may not
\* have applied the batch
UpsertBatchThrows ==
    /\ ustate = "running"
    /\ ubatch # <<>>
    /\ uindex' \in {uindex, uindex \cup Range(ubatch)}
    /\ ustate' = "thrown"
    /\ uerror' = ProviderError
    /\ ufailed' = BatchNumber(ui)
    /\ ubatch' = <<>>
    /\ UNCHANGED <<uvectors, ui, uevents>>

\* the loop condition fails: upsertVectors returns
UpsertLoopExit ==
    /\ ustate = "running"
    /\ ubatch = <<>>
    /\ ~(ui < Len(uvectors))
    /\ ustate' = "returned"
    /\ UNCHANGED <<uvectors, ui, ubatch, uindex, uerror, uevents, ufailed>>

-----------------------------------------------------------------------------
(* The chat handler POST and the retrieval path it calls.  The repository  *)
(* holds two versions of the handler: app/api/chat/route.ts awaits the     *)
(* search through withTimeout, the version in part_000 awaits it directly. *)
(* A formatted context is a list of lines; the empty list is the empty     *)
(* string.  The texts of a result's metadata are taken as single lines     *)
(* that hold no section header.                                            *)

MaxClockMs == 8000
TickMs == 1000

\* withTimeout(searchQuestions(...), 5000, ...)
RAG_TIMEOUT_MS == 5000
\* searchQuestions(lastUserMessage.content, 3)
RAG_TOP_K == 3

NO_RESULTS_TEXT == "No relevant past paper questions found."

ChatHandlers == {"route.ts", "part_000"}

\* a SearchResult: its id and whether metadata.examinerRemarks is non-empty
SearchResults == [id : {"v1", "v2"}, examinerRemarks : BOOLEAN]

Line(kind, n, id) == [kind |-> kind, n |-> n, id |-> id]

\* one element of results.map(...) in formatSearchResultsForPrompt
FormatSection(r, i) ==
    <<Line("header", i + 1, r.id), Line("question", 0, r.id), Line("blank", 0, ""),
      Line("markScheme", 0, r.id)>>
    \o (IF r.examinerRemarks
        THEN <<Line("blank", 0, ""), Line("examinerRemarks", 0, r.id)>>
        ELSE <<Line("blank", 0, "")>>)

\* .join('\n\n') of the sections from the k-th on
RECURSIVE JoinSections(_, _)
JoinSections(results, k) ==
    IF k > Len(results) THEN <<>>
    ELSE FormatSection(results[k], k - 1)
         \o (IF k < Len(results)
             THEN <<Line("blank", 0, "")>> \o JoinSections(results, k + 1)
             ELSE <<>>)

formatWithoutSentinel(results) == JoinSections(results, 1)

formatSearchResultsForPrompt(results) ==
    IF Len(results) = 0 THEN <<Line("text", 0, NO_RESULTS_TEXT)>>
    ELSE JoinSections(results, 1)

\* streamChatResponse(messages, context || undefined)
ContextArgument(context) ==
    IF context = <<>> THEN [given |-> FALSE, context |-> <<>>]
    ELSE [given |-> TRUE, context |-> context]

NoGeneration == [given |-> FALSE, context |-> <<Line("text", 0, "not called")>>]

\* does this handler race the search against a timer?
HasTimeout(handler) == handler = "route.ts"

ChatInit ==
    /\ hhandler \in ChatHandlers
    /\ hstage = "start"
    /\ hclock = 0
    /\ houtcome = "none"
    /\ hresults = <<>>
    /\ hcontext = <<>>
    /\ hgen = NoGeneration
    /\ hstatus = 0

ChatIdle ==
    /\ hhandler = "route.ts"
    /\ hstage = "idle"
    /\ hclock = 0
    /\ houtcome = "none"
    /\ hresults = <<>>
    /\ hcontext = <<>>
    /\ hgen = NoGeneration
    /\ hstatus = 0

\* the request ends before the retrieval step: 401, 429 (route.ts), 400, or
\* 500 from the outer catch
ChatRejected ==
    /\ hstage = "start"
    /\ hstatus' \in (IF hhandler = "route.ts" THEN {401, 429, 400, 500} ELSE {401, 400, 500})
    /\ hstage' = "responded"
    /\ UNCHANGED <<hhandler, hclock, houtcome, hresults, hcontext, hgen>>

\* if (useRAG && lastUserMessage): the search is started and awaited
ChatStartSearch ==
    /\ hstage = "start"
    /\ hstage' = "awaitSearch"
    /\ UNCHANGED <<hhandler, hclock, houtcome, hresults, hcontext, hgen, hstatus>>

\* useRAG is false or there is no user message: no search; the stream is
\* started without context and the Response is returned
ChatSkipSearch ==
    /\ hstage = "start"
    /\ houtcome' = "skipped"
    /\ hgen' = ContextArgument(hcontext)
    /\ hstatus' = 200
    /\ hstage' = "responded"
    /\ UNCHANGED <<hhandler, hclock, hresults, hcontext>>

\* time passes while the search is pending; a timer that is due fires first
ChatTick ==
    /\ hstage = "awaitSearch"
    /\ hclock < MaxClockMs
    /\ HasTimeout(hhandler) => hclock < RAG_TIMEOUT_MS
    /\ hclock' = IF HasTimeout(hhandler) THEN Min(hclock + TickMs, RAG_TIMEOUT_MS)
                 ELSE Min(hclock + TickMs, MaxClockMs)
    /\ UNCHANGED <<hhandler, hstage, houtcome, hresults, hcontext, hgen, hstatus>>

\* searchQuestions resolves with up to topK results: context is the formatted
\* block, the stream is started and the Response is returned
ChatSearchResolves ==
    /\ hstage = "awaitSearch"
    /\ \E results \in SeqsUpTo(SearchResults, RAG_TOP_K) :
          /\ hresults' = results
          /\ hcontext' = formatSearchResultsForPrompt(results)
          /\ hgen' = ContextArgument(formatSearchResultsForPrompt(results))
    /\ houtcome' = "resolved"
    /\ hstatus' = 200
    /\ hstage' = "responded"
    /\ UNCHANGED <<hhandler, hclock>>

\* searchQuestions rejects: the catch logs, context stays ''
ChatSearchRejects ==
    /\ hstage = "awaitSearch"
    /\ houtcome' = "rejected"
    /\ hgen' = ContextArgument(hcontext)
    /\ hstatus' = 200
    /\ hstage' = "responded"
    /\ UNCHANGED <<hhandler, hclock, hresults, hcontext>>

\* withTimeout's timer rejects the race: the catch logs, context stays ''
ChatSearchTimesOut ==
    /\ hstage = "awaitSearch"
    /\ HasTimeout(hhandler)
    /\ hclock >= RAG_TIMEOUT_MS
    /\ houtcome' = "timeout"
    /\ hgen' = ContextArgument(hcontext)
    /\ hstatus' = 200
    /\ hstage' = "responded"
    /\ UNCHANGED <<hhandler, hclock, hresults, hcontext>>

-----------------------------------------------------------------------------
(* The generation calls of an ingestion run.  A call of                    *)
(* model.generateContent is awaited: it stays pending until the capability *)
(* answers or rejects, and nothing else ends the await.  What the answers  *)
(* hold is left out here (Spec has it); an answer either parses or not.    *)

MaxPendingMs == 60000
PendingTickMs == 20000

\* generateWithRetry(model, parts, maxRetries = 3)
maxRetries == 3

GenerateInit ==
    /\ gtest \in BOOLEAN
    /\ gpaper = 1
    /\ gpc = "loop"
    /\ gstart = 0
    /\ gcall = "none"
    /\ gi = 0
    /\ gretry = 0
    /\ gclock = 0
    /\ gpause = "first"

GenerateIdle ==
    /\ gtest = FALSE
    /\ gpaper = 1
    /\ gpc = "idle"
    /\ gstart = 0
    /\ gcall = "none"
    /\ gi = 0
    /\ gretry = 0
    /\ gclock = 0
    /\ gpause = "first"

\* getPageCount() of the document the running extraction reads
GenPages == IF gpc = "extractQ" THEN QuestionPaperPages(gpaper) ELSE MarkSchemePages

\* the chunk loop goes on to its next chunk, which starts with a wait
\* (if (i > 0) await ...); or the loop is over: the validation throws, or
\* the extraction returns and ingestPaper waits 5 seconds
GenNextChunk ==
    /\ gcall' = "none"
    /\ gi' = 0
    /\ gretry' = 0
    /\ gclock' = 0
    /\ IF ChunkLoopContinues(ChunkNextStart(gstart, CHUNK_SIZE), GenPages)
       THEN /\ gstart' = ChunkNextStart(gstart, CHUNK_SIZE)
            /\ gpc' = gpc
            /\ gpause' = "taken"
       ELSE \E valid \in BOOLEAN :
               IF valid
               THEN /\ gstart' = 0
                    /\ gpc' = IF gpc = "extractQ" THEN "extractMS" ELSE "rest"
                    /\ gpause' = "taken"
               ELSE /\ gstart' = gstart
                    /\ gpc' = "failed"
                    /\ gpause' = "none"

\* the catch of extractMarkSchemeFromPDF's while loop: retryCount++, then
\* a wait of 5 seconds and another attempt, or the chunk is given up
GenAttemptFailed ==
    IF gretry + 1 < MS_PARSE_ATTEMPTS
    THEN /\ gretry' = gretry + 1
         /\ gcall' = "none"
         /\ gi' = 0
         /\ gclock' = 0
         /\ gpause' = "taken"
         /\ UNCHANGED <<gpc, gstart>>
    ELSE GenNextChunk

\* for (const paper of papersToProcess) { await ingestPaper(paper)
GenStartPaper ==
    /\ gpc = "loop"
    /\ gpaper <= Len(papersToProcess(gtest))
    /\ gpc' = "extractQ"
    /\ gstart' = 0
    /\ gcall' = "none"
    /\ gi' = 0
    /\ gretry' = 0
    /\ gclock' = 0
    /\ UNCHANGED <<gtest, gpaper, gpause>>

\* the for loop is over
GenRunFinish ==
    /\ gpc = "loop"
    /\ gpaper > Len(papersToProcess(gtest))
    /\ gpc' = "finished"
    /\ UNCHANGED <<gtest, gpaper, gstart, gcall, gi, gretry, gclock, gpause>>

\* await model.generateContent([...]) is reached: the call is in flight
GenCall ==
    /\ gpc \in {"extractQ", "extractMS"}
    /\ gcall = "none"
    /\ gcall' = "pending"
    /\ gclock' = 0
    /\ UNCHANGED <<gtest, gpaper, gpc, gstart, gi, gretry, gpause>>

\* time passes while the call is awaited
GenTick ==
    /\ gcall = "pending"
    /\ gclock < MaxPendingMs
    /\ gclock' = Min(gclock + PendingTickMs, MaxPendingMs)
    /\ UNCHANGED <<gtest, gpaper, gpc, gstart, gcall, gi, gretry, gpause>>

\* extractQuestionsFromPDF: the capability answers; the chunk is parsed (a
\* JSON.parse error is caught and the chunk skipped) and the loop goes on
GenAnswersQ ==
    /\ gpc = "extractQ"
    /\ gcall = "pending"
    /\ GenNextChunk
    /\ UNCHANGED <<gtest, gpaper>>

\* extractQuestionsFromPDF: the call rejects; there is no retry
GenRejectsQ ==
    /\ gpc = "extractQ"
    /\ gcall = "pending"
    /\ gpc' = "failed"
    /\ gcall' = "none"
    /\ gpause' = "none"
    /\ UNCHANGED <<gtest, gpaper, gstart, gi, gretry, gclock>>

\* extractMarkSchemeFromPDF: generateWithRetry returns the answer; it parses
\* (parseSuccess) or the while loop's catch counts a failed attempt
GenAnswersMS ==
    /\ gpc = "extractMS"
    /\ gcall = "pending"
    /\ \E parses \in BOOLEAN : IF parses THEN GenNextChunk ELSE GenAttemptFailed
    /\ UNCHANGED <<gtest, gpaper>>

\* generateWithRetry: the call rejects; on a 429 that is not the last try it
\* waits, otherwise it throws to the while loop's catch
GenRejectsMS ==
    /\ gpc = "extractMS"
    /\ gcall = "pending"
    /\ \E rateLimited \in BOOLEAN :
          IF rateLimited /\ gi < maxRetries - 1
          THEN /\ gcall' = "backoff"
               /\ gpause' = "none"
               /\ UNCHANGED <<gpc, gstart, gi, gretry, gclock>>
          ELSE GenAttemptFailed
    /\ UNCHANGED <<gtest, gpaper>>

\* await wait(delay) is over: the for loop of generateWithRetry calls again
GenBackoffEnds ==
    /\ gcall = "backoff"
    /\ gi' = gi + 1
    /\ gcall' = "pending"
    /\ gclock' = 0
    /\ gpause' = "taken"
    /\ UNCHANGED <<gtest, gpaper, gpc, gstart, gretry>>

\* steps 3 to 7 of ingestPaper run to the end, or one of them throws
GenRest ==
    /\ gpc = "rest"
    /\ gpc' \in {"complete", "failed"}
    /\ UNCHANGED <<gtest, gpaper, gstart, gcall, gi, gretry, gclock, gpause>>

\* ingestPaper has returned: the loop waits 10 seconds and goes on; or it
\* has thrown: the catch goes on at once, or in test mode throws again
GenPaperEnds ==
    /\ gpc \in {"complete", "failed"}
    /\ IF gpc = "failed" /\ OuterCatchRethrows(gtest)
       THEN gpc' = "thrown" /\ gpaper' = gpaper
       ELSE gpc' = "loop" /\ gpaper' = gpaper + 1
    /\ gpause' = IF gpc = "complete" THEN "taken" ELSE gpause
    /\ UNCHANGED <<gtest, gstart, gcall, gi, gretry, gclock>>

-----------------------------------------------------------------------------
(* The attempts made for one chunk.  extractMarkSchemeFromPDF and          *)
(* parseStructuredPaper wrap the generation and JSON.parse in a while loop *)
(* with retryCount; extractQuestionsFromPDF calls generateContent once,    *)
(* outside its try block, and catches a parse error.  Only                 *)
(* extractMarkSchemeFromPDF generates through generateWithRetry.           *)

RetryChunks == 2

\* await wait(5000) in the catch of the while loop
PARSE_RETRY_DELAY_MS == 5000

RetryParsers == {"extractQuestionsFromPDF", "extractMarkSchemeFromPDF", "parseStructuredPaper"}

Event(e, ms) == [e |-> e, ms |-> ms]

RetryDelayFixed(i) == 10000

\* const delay = Math.pow(2, i) * 5000 + 5000
RetryDelay(i) == (2 ^ i) * 5000 + 5000

\* while (!parseSuccess && retryCount < 2): absent in extractQuestionsFromPDF
HasParseRetryLoop(parser) == parser # "extractQuestionsFromPDF"

UsesGenerateWithRetry(parser) == parser = "extractMarkSchemeFromPDF"

\* what generateContent can reject with: a 429 in error.status, a 429 in
\* error.message only, or another error
GenerationErrors == {"status429", "message429", "other"}

\* error.status === 429 || error.message?.includes('429')
IsRateLimit(error) == error \in {"status429", "message429"}

RetryInit ==
    /\ rparser \in RetryParsers
    /\ rchunk = 1
    /\ rstate = "ready"
    /\ rretry = 0
    /\ ri = 0
    /\ rlog = <<>>
    /\ rtry = <<>>

RetryIdle ==
    /\ rparser = "extractQuestionsFromPDF"
    /\ rchunk = 1
    /\ rstate = "idle"
    /\ rretry = 0
    /\ ri = 0
    /\ rlog = <<>>
    /\ rtry = <<>>

\* the catch block around JSON.parse: with a while loop, retryCount++ and,
\* if an attempt is left, a wait and another round; otherwise the chunk is
\* skipped
AttemptFailed ==
    IF HasParseRetryLoop(rparser) /\ rretry + 1 < MS_PARSE_ATTEMPTS
    THEN /\ rretry' = rretry + 1
         /\ rlog' = rlog \o <<Event("failed", 0), Event("wait", PARSE_RETRY_DELAY_MS)>>
         /\ rstate' = "ready"
    ELSE /\ rretry' = IF HasParseRetryLoop(rparser) THEN rretry + 1 ELSE rretry
         /\ rlog' = Append(rlog, Event("failed", 0))
         /\ rstate' = "givenUp"

\* an attempt starts: generateWithRetry(model, parts) enters its loop with
\* i = 0, or model.generateContent is called directly
RetryAttempt ==
    /\ rstate = "ready"
    /\ rlog' = Append(rlog, Event("attempt", 0))
    /\ rtry' = <<Event("call", 0)>>
    /\ ri' = 0
    /\ rstate' = "pending"
    /\ UNCHANGED <<rparser, rchunk, rretry>>

\* the call resolves; JSON.parse succeeds (parseSuccess = true) or throws
RetryAnswers ==
    /\ rstate = "pending"
    /\ rtry' = Append(rtry, Event("ok", 0))
    /\ \E parses \in BOOLEAN :
          IF parses
          THEN /\ rlog' = Append(rlog, Event("parsed", 0))
               /\ rstate' = "done"
               /\ rretry' = rretry
          ELSE AttemptFailed
    /\ UNCHANGED <<rparser, rchunk, ri>>

\* the call rejects.  generateWithRetry waits and calls again on a 429 that
\* is not the last try, and throws otherwise; a thrown error is caught by the
\* while loop, except in extractQuestionsFromPDF, which it leaves
RetryRejects ==
    /\ rstate = "pending"
    /\ \E error \in GenerationErrors :
          IF UsesGenerateWithRetry(rparser) /\ IsRateLimit(error) /\ ri < maxRetries - 1
          THEN /\ rtry' = rtry \o <<Event(error, 0), Event("wait", RetryDelay(ri)),
                                    Event("call", 0)>>
               /\ ri' = ri + 1
               /\ UNCHANGED <<rstate, rretry, rlog>>
          ELSE /\ rtry' = rtry \o <<Event(error, 0), Event("throw", 0)>>
               /\ ri' = ri
               /\ IF HasParseRetryLoop(rparser)
                  THEN AttemptFailed
                  ELSE /\ rstate' = "thrown"
                       /\ rlog' = Append(rlog, Event("thrown", 0))
                       /\ rretry' = rretry
    /\ UNCHANGED <<rparser, rchunk>>

\* the chunk is parsed or skipped: the for loop goes on to the next chunk,
\* whose retryCount starts at 0
RetryNextChunk ==
    /\ rstate \in {"done", "givenUp"}
    /\ rchunk < RetryChunks
    /\ rchunk' = rchunk + 1
    /\ rstate' = "ready"
    /\ rretry' = 0
    /\ ri' = 0
    /\ rlog' = <<>>
    /\ rtry' = <<>>
    /\ UNCHANGED rparser

-----------------------------------------------------------------------------
(* discoverPapers, in the pipeline (lib/rag/ingest-pipeline.ts) and in the *)
(* practice script (scripts/ingest-practice.ts).  A file stands by the     *)
(* directory it is in and the fields of its name 9702_[smw]YY_(qp|ms)_N;   *)
(* a paper stands by its number N, "Paper N" in the pipeline.              *)

MaxFiles == 4

DiscoverVersions == {"ingest-pipeline", "ingest-practice"}

\* the directories under basePath
YearDirs == {"2024", "2024b", "2023"}

\* parseInt(yearStr)
DirYear(dir) == IF dir = "2023" THEN 2023 ELSE 2024

PaperFileNames == [dir : YearDirs, yy : {23, 24}, type : {"qp", "ms"}, num : {2, 12}]

\* the year of the group a file goes to: the directory's in the pipeline,
\* 2000 + parseInt(yearSuffix) in the practice script
FileYear(version, f) ==
    IF version = "ingest-pipeline" THEN DirYear(f.dir) ELSE 2000 + f.yy

\* paperGroups of one directory: the groups and the file types each holds
PaperGroups(version, files) ==
    {[dir |-> f.dir, year |-> FileYear(version, f), paper |-> f.num] : f \in files}

GroupHas(version, files, g, type) ==
    \E f \in files :
        /\ f.dir = g.dir
        /\ FileYear(version, f) = g.year
        /\ f.num = g.paper
        /\ f.type = type

\* if (group.qp && group.ms) papers.push(...)
CompleteGroups(version, files) ==
    {g \in PaperGroups(version, files) :
        GroupHas(version, files, g, "qp") /\ GroupHas(version, files, g, "ms")}

\* else console.warn(...): only the pipeline has this branch
WarnedGroups(version, files) ==
    IF version = "ingest-pipeline"
    THEN PaperGroups(version, files) \ CompleteGroups(version, files)
    ELSE {}

\* the decimal digits of a paper number below 100
Digits(n) == IF n < 10 THEN <<n>> ELSE <<n \div 10, n % 10>>

\* a.localeCompare(b) < 0 for "Paper a" and "Paper b"
LocaleLess(a, b) ==
    \/ Digits(a)[1] < Digits(b)[1]
    \/ /\ Digits(a)[1] = Digits(b)[1]
       /\ \/ Len(Digits(a)) < Len(Digits(b))
          \/ /\ Len(Digits(a)) = 2
             /\ Len(Digits(b)) = 2
             /\ Digits(a)[2] < Digits(b)[2]

PaperLessUnsorted(version, a, b) == FALSE

\* the comparator's second key: a.paper.localeCompare(b.paper) in the
\* pipeline, a.paper - b.paper in the practice script
PaperLess(version, a, b) ==
    IF version = "ingest-pipeline" THEN LocaleLess(a, b) ELSE a < b

\* sort((a, b) => b.year - a.year || <papers compared>) puts a before b
SortsBefore(version, a, b) ==
    \/ a.year > b.year
    \/ a.year = b.year /\ PaperLess(version, a.paper, b.paper)

\* the orders Array.prototype.sort can leave the groups in
SortedLists(version, groups) ==
    {list \in [1..Cardinality(groups) -> groups] :
        /\ \A g \in groups : \E k \in DOMAIN list : list[k] = g
        /\ \A i, j \in DOMAIN list :
              i < j => ~SortsBefore(version, list[j], list[i])}

DiscoverInit ==
    /\ dversion \in DiscoverVersions
    /\ dfiles \in {fs \in SUBSET PaperFileNames : Cardinality(fs) <= MaxFiles}
    /\ dstate = "called"
    /\ dpapers = <<>>
    /\ dwarned = {}

DiscoverIdle ==
    /\ dversion = "ingest-pipeline"
    /\ dfiles = {}
    /\ dstate = "idle"
    /\ dpapers = <<>>
    /\ dwarned = {}

\* discoverPapers(basePath) runs and returns
discoverPapers ==
    /\ dstate = "called"
    /\ dpapers' \in SortedLists(dversion, CompleteGroups(dversion, dfiles))
    /\ dwarned' = WarnedGroups(dversion, dfiles)
    /\ dstate' = "returned"
    /\ UNCHANGED <<dversion, dfiles>>

-----------------------------------------------------------------------------
(* Two runs of ingestPaper on the same document set, from the existence    *)
(* filter on.  Each await (one findFirst, one create) is a step, so the    *)
(* steps of the two runs interleave freely.                                *)

MaxRunsEach == 2

RaceRuns == {1, 2}

\* mergedQuestions of the document set, the same in every run
RaceMerged == <<Q1a, Q1bi>>

RaceScope == Papers[1]

\* The Question table as this repository declares it (prisma/schema.prisma):
\* create is refused by no uniqueness rule on (year, paper, questionNumber)
CreateAccepted(rows, questionNumber) == TRUE

\* the other of the two runs
OtherRun(r) == 3 - r

RaceInit ==
    /\ kpc = [r \in RaceRuns |-> "idle"]
    /\ kpos = [r \in RaceRuns |-> 1]
    /\ knew = [r \in RaceRuns |-> <<>>]
    /\ kstarted = [r \in RaceRuns |-> 0]
    /\ kdb = {}
    /\ koverlap = FALSE

RaceIdle ==
    /\ kpc = [r \in RaceRuns |-> "done"]
    /\ kpos = [r \in RaceRuns |-> 1]
    /\ knew = [r \in RaceRuns |-> <<>>]
    /\ kstarted = [r \in RaceRuns |-> 0]
    /\ kdb = {}
    /\ koverlap = FALSE

\* a run reaches step 4 for the scope: const newQuestions = []
RaceStart(r) ==
    /\ kpc[r] = "idle"
    /\ kstarted[r] < MaxRunsEach
    /\ kstarted' = [kstarted EXCEPT ![r] = @ + 1]
    /\ kpc' = [kpc EXCEPT ![r] = "filter"]
    /\ kpos' = [kpos EXCEPT ![r] = 1]
    /\ knew' = [knew EXCEPT ![r] = <<>>]
    /\ koverlap' = (koverlap \/ kpc[OtherRun(r)] # "idle")
    /\ UNCHANGED kdb

\* one round of the filter loop: await questionExists(...); push if absent;
\* after the last round step 5 starts, or ingestPaper returns with nothing new
RaceCheck(r) ==
    /\ kpc[r] = "filter"
    /\ LET q == RaceMerged[kpos[r]]
           found == IF questionExists(kdb, RaceScope.year, RaceScope.paper, q)
                    THEN knew[r] ELSE Append(knew[r], q)
       IN  /\ knew' = [knew EXCEPT ![r] = found]
           /\ IF kpos[r] < Len(RaceMerged)
              THEN /\ kpos' = [kpos EXCEPT ![r] = @ + 1]
                   /\ UNCHANGED kpc
              ELSE /\ kpos' = [kpos EXCEPT ![r] = 1]
                   /\ kpc' = [kpc EXCEPT ![r] = IF found = <<>> THEN "idle" ELSE "persist"]
    /\ UNCHANGED <<kstarted, kdb, koverlap>>

\* one round of the create loop: await prisma.question.create(...); after the
\* last round the run goes on to steps 6 and 7 and ends
RaceCreate(r) ==
    /\ kpc[r] = "persist"
    /\ CreateAccepted(kdb, knew[r][kpos[r]])
    /\ kdb' = kdb \cup {[id |-> <<r, kstarted[r], kpos[r]>>,
                         year |-> RaceScope.year, paper |-> RaceScope.paper,
                         questionNumber |-> knew[r][kpos[r]]]}
    /\ IF kpos[r] < Len(knew[r])
       THEN /\ kpos' = [kpos EXCEPT ![r] = @ + 1]
            /\ UNCHANGED kpc
       ELSE /\ kpos' = [kpos EXCEPT ![r] = 1]
            /\ kpc' = [kpc EXCEPT ![r] = "idle"]
    /\ UNCHANGED <<knew, kstarted, koverlap>>

-----------------------------------------------------------------------------
(* lib/rate-limit.ts: a counter per identifier that starts again when the  *)
(* stored resetTime has passed.  Time is in milliseconds.                  *)

MaxNow == 3

LimitIds == {"u1", "u2"}

\* RATE_LIMITS scaled down: an endpoint with a short window and one with a
\* long window, as CHAT (a minute) and PRACTICE (an hour); the routes pass
\* the same user id as identifier
LimitConfigs ==
    {[windowMs |-> 2, maxRequests |-> 2], [windowMs |-> 4, maxRequests |-> 3]}

NoResult == [allowed |-> TRUE, remaining |-> 0, resetTime |-> 0, kind |-> "none"]

NoLimitCall ==
    [identifier |-> "", had |-> FALSE, count |-> 0, resetTime |-> 0,
     countAfter |-> 0, resetTimeAfter |-> 0]

\* if (!entry || entry.resetTime < now)
NewWindowAlways(store, identifier, now) == TRUE

NewWindow(store, identifier, now) ==
    \/ identifier \notin DOMAIN store
    \/ store[identifier].resetTime < now

\* store with identifier set to entry
StoreSet(store, identifier, entry) ==
    [k \in DOMAIN store \cup {identifier} |->
        IF k = identifier THEN entry ELSE store[k]]

LimitInit ==
    /\ lconfig \in LimitConfigs
    /\ lnow = 0
    /\ lstore = <<>>
    /\ lresult = NoResult
    /\ lcalled = NoLimitCall
    /\ lallowed = [k \in LimitIds \X LimitConfigs |-> [t \in 0..MaxNow |-> 0]]

LimitIdle ==
    /\ lconfig = [windowMs |-> 2, maxRequests |-> 1]
    /\ lnow = 0
    /\ lstore = <<>>
    /\ lresult = NoResult
    /\ lcalled = NoLimitCall
    /\ lallowed = <<>>

\* checkRateLimit(identifier, config)
checkRateLimit(identifier, config) ==
    /\ lconfig' = config
    /\ IF NewWindow(lstore, identifier, lnow)
       THEN /\ lstore' = StoreSet(lstore, identifier,
                            [count |-> 1, resetTime |-> lnow + config.windowMs])
            /\ lresult' = [allowed |-> TRUE, remaining |-> config.maxRequests - 1,
                           resetTime |-> lnow + config.windowMs, kind |-> "new"]
       ELSE IF lstore[identifier].count >= config.maxRequests
       THEN /\ lstore' = lstore
            /\ lresult' = [allowed |-> FALSE, remaining |-> 0,
                           resetTime |-> lstore[identifier].resetTime, kind |-> "denied"]
       ELSE /\ lstore' = [lstore EXCEPT ![identifier].count = @ + 1]
            /\ lresult' = [allowed |-> TRUE,
                           remaining |-> config.maxRequests - (lstore[identifier].count + 1),
                           resetTime |-> lstore[identifier].resetTime, kind |-> "counted"]
    /\ lcalled' = [identifier |-> identifier,
                   had |-> identifier \in DOMAIN lstore,
                   count |-> IF identifier \in DOMAIN lstore
                             THEN lstore[identifier].count ELSE 0,
                   resetTime |-> IF identifier \in DOMAIN lstore
                                 THEN lstore[identifier].resetTime ELSE 0,
                   countAfter |-> lstore'[identifier].count,
                   resetTimeAfter |-> lstore'[identifier].resetTime]
    /\ lallowed' = IF lresult'.allowed
                   THEN [lallowed EXCEPT ![<<identifier, config>>][lnow] = @ + 1]
                   ELSE lallowed
    /\ UNCHANGED lnow

\* the clock advances by a millisecond
LimitTick ==
    /\ lnow < MaxNow
    /\ lnow' = lnow + 1
    /\ UNCHANGED <<lconfig, lstore, lresult, lcalled, lallowed>>

\* setInterval(...): entries whose resetTime has passed are deleted
LimitCleanup ==
    /\ \E k \in DOMAIN lstore : lstore[k].resetTime < lnow
    /\ lstore' = [k \in {j \in DOMAIN lstore : ~(lstore[j].resetTime < lnow)} |-> lstore[k]]
    /\ UNCHANGED <<lconfig, lnow, lresult, lcalled, lallowed>>

OtherIdle ==
    /\ FigureIdle /\ CropIdle /\ UpsertIdle /\ ChatIdle /\ GenerateIdle /\ RetryIdle
    /\ DiscoverIdle /\ RaceIdle /\ LimitIdle

ExtractIdle ==
    /\ xstage = "idle"
    /\ xraw = <<>>
    /\ xquestions = <<>>
    /\ xdedup = <<>>
    /\ xfiltered = <<>>
    /\ xmergeIn = <<>>
    /\ xschemes = <<>>
    /\ xmerged = <<>>

ChunkIdle ==
    /\ totalPages = 0
    /\ chunkSize = CHUNK_SIZE
    /\ ci = 0
    /\ chunks = <<>>
    /\ cdone = TRUE

vars == <<chunkVars, extractVars, orchVars, otherVars>>

ChunkNext ==
    \/ ChunkStep /\ UNCHANGED <<extractVars, orchVars, otherVars>>
    \/ ChunkExit /\ UNCHANGED <<extractVars, orchVars, otherVars>>

InitChunk == ChunkInit /\ ExtractIdle /\ OrchInit /\ OtherIdle

SpecChunk == InitChunk /\ [][ChunkNext]_vars

ExtractNext ==
    \/ XValidateOk /\ UNCHANGED <<chunkVars, orchVars, otherVars>>
    \/ XValidateThrow /\ UNCHANGED <<chunkVars, orchVars, otherVars>>
    \/ XDeduplicate /\ UNCHANGED <<chunkVars, orchVars, otherVars>>
    \/ XFilter /\ UNCHANGED <<chunkVars, orchVars, otherVars>>
    \/ XMerge /\ UNCHANGED <<chunkVars, orchVars, otherVars>>
    \/ XMergeDirect /\ UNCHANGED <<chunkVars, orchVars, otherVars>>

InitExtract == ExtractInit /\ ChunkIdle /\ OrchInit /\ OtherIdle

SpecExtract == InitExtract /\ [][ExtractNext]_vars

Init == OrchInit /\ ChunkIdle /\ ExtractIdle /\ OtherIdle

Spec == Init /\ [][OrchNext]_vars

FigureNext ==
    \/ FigureChunkOk /\ UNCHANGED notFigureVars
    \/ FigureChunkFails /\ UNCHANGED notFigureVars
    \/ FigureReturn /\ UNCHANGED notFigureVars
    \/ FigureCropCall /\ UNCHANGED notFigureVars
    \/ FigureCropSkip /\ UNCHANGED notFigureVars

InitFigure ==
    FigureInit /\ ChunkIdle /\ ExtractIdle /\ OrchInit /\ CropIdle /\ UpsertIdle /\ ChatIdle /\ GenerateIdle /\ RetryIdle /\ DiscoverIdle /\ RaceIdle /\ LimitIdle

SpecFigure == InitFigure /\ [][FigureNext]_vars

CropNext ==
    \/ CropInvalidPage /\ UNCHANGED notCropVars
    \/ CropInvalidDimensions /\ UNCHANGED notCropVars
    \/ CropExtract /\ UNCHANGED notCropVars
    \/ CropThrows /\ UNCHANGED notCropVars
    \/ CropPersist /\ UNCHANGED notCropVars

InitCrop ==
    CropInit /\ ChunkIdle /\ ExtractIdle /\ OrchInit /\ FigureIdle /\ UpsertIdle /\ ChatIdle /\ GenerateIdle /\ RetryIdle /\ DiscoverIdle /\ RaceIdle /\ LimitIdle

SpecCrop == InitCrop /\ [][CropNext]_vars

UpsertNext ==
    \/ UpsertSend /\ UNCHANGED notUpsertVars
    \/ UpsertBatchReturns /\ UNCHANGED notUpsertVars
    \/ UpsertBatchThrows /\ UNCHANGED notUpsertVars
    \/ UpsertLoopExit /\ UNCHANGED notUpsertVars

InitUpsert ==
    UpsertInit /\ ChunkIdle /\ ExtractIdle /\ OrchInit /\ FigureIdle /\ CropIdle /\ ChatIdle /\ GenerateIdle /\ RetryIdle /\ DiscoverIdle /\ RaceIdle /\ LimitIdle

SpecUpsert == InitUpsert /\ [][UpsertNext]_vars

ChatNext ==
    \/ ChatRejected /\ UNCHANGED notChatVars
    \/ ChatStartSearch /\ UNCHANGED notChatVars
    \/ ChatSkipSearch /\ UNCHANGED notChatVars
    \/ ChatTick /\ UNCHANGED notChatVars
    \/ ChatSearchResolves /\ UNCHANGED notChatVars
    \/ ChatSearchRejects /\ UNCHANGED notChatVars
    \/ ChatSearchTimesOut /\ UNCHANGED notChatVars

InitChat ==
    /\ ChatInit /\ ChunkIdle /\ ExtractIdle /\ OrchInit
    /\ FigureIdle /\ CropIdle /\ UpsertIdle /\ GenerateIdle /\ RetryIdle /\ DiscoverIdle /\ RaceIdle /\ LimitIdle

SpecChat == InitChat /\ [][ChatNext]_vars

GenerateNext ==
    \/ GenStartPaper /\ UNCHANGED notGenerateVars
    \/ GenRunFinish /\ UNCHANGED notGenerateVars
    \/ GenCall /\ UNCHANGED notGenerateVars
    \/ GenTick /\ UNCHANGED notGenerateVars
    \/ GenAnswersQ /\ UNCHANGED notGenerateVars
    \/ GenRejectsQ /\ UNCHANGED notGenerateVars
    \/ GenAnswersMS /\ UNCHANGED notGenerateVars
    \/ GenRejectsMS /\ UNCHANGED notGenerateVars
    \/ GenBackoffEnds /\ UNCHANGED notGenerateVars
    \/ GenRest /\ UNCHANGED notGenerateVars
    \/ GenPaperEnds /\ UNCHANGED notGenerateVars

InitGenerate ==
    /\ GenerateInit /\ ChunkIdle /\ ExtractIdle /\ OrchInit
    /\ FigureIdle /\ CropIdle /\ UpsertIdle /\ ChatIdle /\ RetryIdle /\ DiscoverIdle /\ RaceIdle /\ LimitIdle

\* The steps of the script itself and its timers (setTimeout) always run when
\* they are due; whether the generation capability ever answers is not
\* assumed.
GenerateFairness ==
    /\ WF_vars(GenStartPaper /\ UNCHANGED notGenerateVars)
    /\ WF_vars(GenRunFinish /\ UNCHANGED notGenerateVars)
    /\ WF_vars(GenCall /\ UNCHANGED notGenerateVars)
    /\ WF_vars(GenTick /\ UNCHANGED notGenerateVars)
    /\ WF_vars(GenBackoffEnds /\ UNCHANGED notGenerateVars)
    /\ WF_vars(GenRest /\ UNCHANGED notGenerateVars)
    /\ WF_vars(GenPaperEnds /\ UNCHANGED notGenerateVars)

SpecGenerate == InitGenerate /\ [][GenerateNext]_vars /\ GenerateFairness

RetryNext ==
    \/ RetryAttempt /\ UNCHANGED notRetryVars
    \/ RetryAnswers /\ UNCHANGED notRetryVars
    \/ RetryRejects /\ UNCHANGED notRetryVars
    \/ RetryNextChunk /\ UNCHANGED notRetryVars

InitRetry ==
    /\ RetryInit /\ ChunkIdle /\ ExtractIdle /\ OrchInit
    /\ FigureIdle /\ CropIdle /\ UpsertIdle /\ ChatIdle /\ GenerateIdle /\ DiscoverIdle /\ RaceIdle /\ LimitIdle

SpecRetry == InitRetry /\ [][RetryNext]_vars

DiscoverNext == discoverPapers /\ UNCHANGED notDiscoverVars

InitDiscover ==
    /\ DiscoverInit /\ ChunkIdle /\ ExtractIdle /\ OrchInit /\ FigureIdle /\ CropIdle
    /\ UpsertIdle /\ ChatIdle /\ GenerateIdle /\ RetryIdle /\ RaceIdle /\ LimitIdle

SpecDiscover == InitDiscover /\ [][DiscoverNext]_vars

RaceNext ==
    \/ \E r \in RaceRuns : RaceStart(r) /\ UNCHANGED notRaceVars
    \/ \E r \in RaceRuns : RaceCheck(r) /\ UNCHANGED notRaceVars
    \/ \E r \in RaceRuns : RaceCreate(r) /\ UNCHANGED notRaceVars

InitRace ==
    /\ RaceInit /\ ChunkIdle /\ ExtractIdle /\ OrchInit /\ FigureIdle /\ CropIdle
    /\ UpsertIdle /\ ChatIdle /\ GenerateIdle /\ RetryIdle /\ DiscoverIdle /\ LimitIdle

SpecRace == InitRace /\ [][RaceNext]_vars

LimitNext ==
    \/ \E identifier \in LimitIds, config \in LimitConfigs :
          checkRateLimit(identifier, config) /\ UNCHANGED notLimitVars
    \/ LimitTick /\ UNCHANGED notLimitVars
    \/ LimitCleanup /\ UNCHANGED notLimitVars

InitLimit ==
    /\ LimitInit /\ ChunkIdle /\ ExtractIdle /\ OrchInit /\ FigureIdle /\ CropIdle
    /\ UpsertIdle /\ ChatIdle /\ GenerateIdle /\ RetryIdle /\ DiscoverIdle /\ RaceIdle

SpecLimit == InitLimit /\ [][LimitNext]_vars

-----------------------------------------------------------------------------
(* Helpers of the properties.                                              *)

\* the indices of qs that hold the first record with their questionNumber
FirstOccurrences(qs) ==
    {k \in 1..Len(qs) : \A j \in 1..(k - 1) : qs[j].questionNumber # qs[k].questionNumber}

\* the n-th smallest element of a set of indices
NthOf(idx, n) == CHOOSE k \in idx : Cardinality({j \in idx : j <= k}) = n

\* child is parent immediately followed by '(' and more
IsParenChild(child, parent) ==
    /\ Len(child) > Len(parent)
    /\ \A i \in 1..Len(parent) : child[i] = parent[i]
    /\ child[Len(parent) + 1] = "("

CeilDiv(a, b) == (a + b - 1) \div b

\* the natural keys of a list of merged questions, in order
KeysOf(list) == [k \in 1..Len(list) |-> list[k].questionNumber]

\* the rows of the table under one natural key
RowsWithKey(year, paper, questionNumber) ==
    {row \in db : row.year = year /\ row.paper = paper
                  /\ row.questionNumber = questionNumber}

InCall == pc \in {"extractQ", "extractMS", "merge", "filter", "persist", "upsert",
                  "complete", "throwing", "failed"}

\* a question record lacks a required field, marks included
LacksRequiredField(q) ==
    \/ q.questionNumber = <<>>
    \/ q.text = ""
    \/ q.marks.type # "number"
    \/ q.topic = ""

\* the same, with marks allowed to be null or absent
LacksRequiredFieldOrHasBadMarks(q) ==
    \/ q.questionNumber = <<>>
    \/ q.text = ""
    \/ q.marks.type \notin {"number", "null"}
    \/ q.topic = ""

SchemeLacksRequiredField(ms) == ms.questionNumber = <<>> \/ ms.markScheme = ""

QuestionExtractionReturns == pc = "extractQ" /\ pc' = "extractMS"
SchemeExtractionReturns == pc = "extractMS" /\ pc' = "merge"

-----------------------------------------------------------------------------
(* C1: when ingestPaper is called for a set whose previous call completed, *)
(* with no delete since and the same merged questions, the existence       *)
(* filter finds every natural key present: the call creates no row and     *)
(* upserts no vector, and each merged question has exactly one row.        *)
C1_SecondRunPersistsNothing ==
    (/\ InCall
     /\ pc \notin {"extractQ", "extractMS", "merge", "filter"}
     /\ prev[paperIdx].outcome = "complete"
     /\ ~cleared[paperIdx]
     /\ KeysOf(mergedQuestions) = prev[paperIdx].merged)
    => /\ newQuestions = <<>>
       /\ savedQuestions = <<>>
       /\ pc \notin {"persist", "upsert"}
       /\ \A k \in 1..Len(mergedQuestions) :
             Cardinality(RowsWithKey(current.year, current.paper,
                                     mergedQuestions[k].questionNumber)) = 1

C1_Witness ==
    /\ pc = "complete"
    /\ prev[paperIdx].outcome = "complete"
    /\ ~cleared[paperIdx]
    /\ Len(mergedQuestions) = 2
    /\ KeysOf(mergedQuestions) = prev[paperIdx].merged
    /\ newQuestions = <<>>

(* C2: whenever ingestPaper has completed for a set, every row of that     *)
(* (year, paper) has a vector in the index, rows written by an earlier     *)
(* failed call included.                                                   *)
C2_EveryRowIndexedAtComplete ==
    pc = "complete" =>
        \A row \in db :
            (row.year = current.year /\ row.paper = current.paper)
                => \E v \in index : v.id = row.id

\* a call completes over rows an earlier failed call left without vectors
C2_Witness ==
    /\ pc = "complete"
    /\ prev[paperIdx].outcome = "failed"
    /\ newQuestions = <<>>
    /\ \E row \in db :
          /\ row.year = current.year /\ row.paper = current.paper
          /\ \A v \in index : v.id # row.id

(* C3: when a call of ingestPaper fails, every row it had already written  *)
(* is still in the table.                                                  *)
C3_SiblingsSurviveFailure ==
    pc \in {"throwing", "failed"} => Range(savedQuestions) \subseteq db

C3_Witness ==
    /\ pc = "failed"
    /\ Len(savedQuestions) >= 1
    /\ Len(savedQuestions) < Len(newQuestions)

(* C4: outside test mode ingestAllPapers never throws; it calls            *)
(* ingestPaper for the discovered sets in discovery order, goes on after a *)
(* failed set and has called it for every set when it returns.             *)
C4_BatchFaultIsolation ==
    /\ calls = [k \in 1..Len(calls) |-> k]
    /\ ~testMode =>
        /\ runState # "thrown"
        /\ (runState = "running" /\ pc = "loop") => Len(calls) = paperIdx - 1
        /\ runState = "finished" => Len(calls) = Len(Papers)

C4_Witness ==
    /\ ~testMode
    /\ runState = "finished"
    /\ calls = <<1, 2>>
    /\ prev[1].outcome = "failed"
    /\ prev[2].outcome = "complete"

(* C5: once a chunk of a document set has run out of generation or parse   *)
(* attempts, the set fails: no question of it is persisted and the call    *)
(* does not complete.                                                      *)
C5_ExhaustedChunkFailsTheSet ==
    exhausted => (savedQuestions = <<>> /\ pc # "complete")

\* a call completes with rows persisted and indexed from a partial extraction
C5_Witness ==
    /\ exhausted
    /\ pc = "complete"
    /\ savedQuestions # <<>>
    /\ \A k \in 1..Len(savedQuestions) :
          \E v \in index : v.id = savedQuestions[k].id

(* C6, as claimed: extraction returns only when no record of any chunk     *)
(* lacks a required field, numeric marks included.                         *)
C6_AnyMissingFieldRaises ==
    [][/\ QuestionExtractionReturns =>
            \A k \in 1..Len(allQuestions) : ~LacksRequiredField(allQuestions[k])
       /\ SchemeExtractionReturns =>
            \A k \in 1..Len(allMarkSchemes) :
                ~SchemeLacksRequiredField(allMarkSchemes[k])]_vars

(* C6, amended: extraction returns only when no record of any chunk lacks  *)
(* questionNumber, text or topic (markScheme for a mark scheme) or has     *)
(* marks that are neither a number nor null; when the validation throws,   *)
(* nothing of the set has been or is persisted or indexed.                 *)
C6_ValidationFailFast ==
    [][/\ QuestionExtractionReturns =>
            \A k \in 1..Len(allQuestions) :
                ~LacksRequiredFieldOrHasBadMarks(allQuestions[k])
       /\ SchemeExtractionReturns =>
            \A k \in 1..Len(allMarkSchemes) :
                ~SchemeLacksRequiredField(allMarkSchemes[k])
       /\ (pc \in {"extractQ", "extractMS"} /\ pc' = "throwing") =>
            /\ savedQuestions' = <<>>
            /\ db' = db
            /\ index' = index
       /\ (pc = "throwing" /\ savedQuestions = <<>>) => (db' = db /\ index' = index)
       /\ (pc = "failed" /\ savedQuestions = <<>>) => (db' = db /\ index' = index)]_vars

C6_Witness ==
    /\ pc = "throwing"
    /\ ~ChunkLoopContinues(chunkStart, QuestionPaperPages(paperIdx))
    /\ \E k \in 1..Len(allQuestions) : LacksRequiredFieldOrHasBadMarks(allQuestions[k])
    /\ \E k \in 1..Len(allQuestions) : ~LacksRequiredField(allQuestions[k])

-----------------------------------------------------------------------------
(* C7: deduplication is first-seen-wins and order preserving: the          *)
(* deduplicated list is exactly the first occurrence of each               *)
(* questionNumber, in input order, and the merged list that goes on to the *)
(* existence filter has no two records with one questionNumber, carries    *)
(* the first occurrence's data and keeps the input order.                  *)
C7_DedupFirstSeen ==
    /\ xstage \in {"deduplicated", "filtered", "merged"} =>
        /\ Len(xdedup) = Cardinality(FirstOccurrences(xquestions))
        /\ \A n \in 1..Len(xdedup) :
              xdedup[n] = xquestions[NthOf(FirstOccurrences(xquestions), n)]
        /\ \A a, b \in 1..Len(xdedup) :
              a # b => xdedup[a].questionNumber # xdedup[b].questionNumber
    /\ xstage = "merged" =>
        /\ \A a, b \in 1..Len(xmerged) :
              a # b => xmerged[a].questionNumber # xmerged[b].questionNumber
        /\ \A a \in 1..Len(xmerged) :
              \E k \in FirstOccurrences(xquestions) :
                  /\ xquestions[k].questionNumber = xmerged[a].questionNumber
                  /\ xquestions[k].marks = xmerged[a].marks
                  /\ xquestions[k].text = xmerged[a].text
                  /\ xquestions[k].topic = xmerged[a].topic
                  /\ \A b \in (a + 1)..Len(xmerged) :
                        \E m \in FirstOccurrences(xquestions) :
                            /\ m > k
                            /\ xquestions[m].questionNumber = xmerged[b].questionNumber

C7_Witness ==
    /\ xstage = "merged"
    /\ Len(xmerged) >= 2
    /\ \E j, k \in 1..Len(xquestions) :
        /\ j < k
        /\ xquestions[j].questionNumber = xquestions[k].questionNumber
        /\ xquestions[j].marks # xquestions[k].marks

(* C8: a record of the deduplicated list is dropped by the filter if and   *)
(* only if its marks are 0 and another record's questionNumber is its own  *)
(* followed by '('; the survivors keep their order.                        *)
C8_ZeroMarkPruning ==
    xstage \in {"filtered", "merged"} =>
        /\ \A k \in 1..Len(xdedup) :
              (xdedup[k] \notin Range(xfiltered)) <=>
                  /\ xdedup[k].marks = Num(0)
                  /\ \E j \in 1..Len(xdedup) :
                        /\ j # k
                        /\ IsParenChild(xdedup[j].questionNumber,
                                        xdedup[k].questionNumber)
        /\ Range(xfiltered) \subseteq Range(xdedup)
        /\ \A a, b \in 1..Len(xfiltered) :
              a < b => \E j, k \in 1..Len(xdedup) :
                          j < k /\ xdedup[j] = xfiltered[a] /\ xdedup[k] = xfiltered[b]

C8_Witness ==
    /\ xstage = "filtered"
    /\ Len(xfiltered) < Len(xdedup)
    /\ \E k \in 1..Len(xfiltered) : xfiltered[k].marks = Num(0)
    /\ \E k \in 1..Len(xfiltered) : xfiltered[k].questionNumber = Q3aX

(* C9: the merge returns one record per input question, in input order,    *)
(* with the question's own fields unchanged, the markScheme of a scheme    *)
(* record with the same questionNumber when there is one and the sentinel  *)
(* 'Mark scheme not found' otherwise.                                      *)
C9_MergeKeepsEveryQuestion ==
    xstage \in {"merged", "mergedDirect"} =>
        /\ Len(xmerged) = Len(xmergeIn)
        /\ \A k \in 1..Len(xmerged) :
            /\ xmerged[k].questionNumber = xmergeIn[k].questionNumber
            /\ xmerged[k].text = xmergeIn[k].text
            /\ xmerged[k].marks = xmergeIn[k].marks
            /\ xmerged[k].topic = xmergeIn[k].topic
            /\ xmerged[k].hasImage = xmergeIn[k].hasImage
            /\ IF \E j \in 1..Len(xschemes) :
                     xschemes[j].questionNumber = xmergeIn[k].questionNumber
               THEN \E j \in 1..Len(xschemes) :
                     /\ xschemes[j].questionNumber = xmergeIn[k].questionNumber
                     /\ xschemes[j].markScheme = xmerged[k].markScheme
                     /\ xschemes[j].examinerRemarks = xmerged[k].examinerRemarks
               ELSE xmerged[k].markScheme = MARK_SCHEME_NOT_FOUND

C9_Witness ==
    /\ xstage = "mergedDirect"
    /\ Len(xmerged) = MaxLen
    /\ \E k \in 1..Len(xmerged) : xmerged[k].markScheme = MARK_SCHEME_NOT_FOUND
    /\ \E k \in 1..Len(xmerged) : xmerged[k].markScheme = "m2"

(* C10: the chunk loop produces ceil(P/C) windows [startPage, endPage)     *)
(* that are sequential, non-empty, pairwise disjoint and cover [0, P)      *)
(* exactly; no page yields no chunk.                                       *)
C10_ChunkCoverage ==
    /\ \A k \in 1..Len(chunks) :
        /\ chunks[k].startPage < chunks[k].endPage
        /\ chunks[k].endPage <= totalPages
        /\ chunks[k].endPage - chunks[k].startPage <= chunkSize
        /\ chunks[k].startPage = (IF k = 1 THEN 0 ELSE chunks[k - 1].endPage)
    /\ cdone =>
        /\ Len(chunks) = CeilDiv(totalPages, chunkSize)
        /\ \A page \in 0..(totalPages - 1) :
              Cardinality({k \in 1..Len(chunks) :
                  chunks[k].startPage <= page /\ page < chunks[k].endPage}) = 1
        /\ totalPages = 0 => chunks = <<>>

C10_Witness ==
    /\ cdone
    /\ Len(chunks) >= 3
    /\ totalPages % chunkSize # 0

-----------------------------------------------------------------------------
\* a region as the bounding-region rule wants it: positive spans of at least
\* the minimum threshold
RegionWellFormed(box) ==
    /\ box[3] > box[1] /\ box[4] > box[2]
    /\ (box[3] - box[1]) >= MIN_REGION_SPAN /\ (box[4] - box[2]) >= MIN_REGION_SPAN

FigureReturned == fstage = "returned"

(* C11: every page number that leaves extraction, and every page number    *)
(* handed to cropAndSaveImage, is the page number the response reported    *)
(* plus the startPage of its chunk.                                        *)
C11_PagesAreAbsolute ==
    /\ FigureReturned =>
          \A k \in 1..Len(fout) :
              fout[k].pageNumber # NoPage =>
                  fout[k].pageNumber = fout[k].relPage + fout[k].startPage
    /\ \A k \in 1..Len(fcrops) :
          fcrops[k].pageNumber = fcrops[k].relPage + fcrops[k].startPage

\* cropAndSaveImage is called with the chunk-relative page of a later chunk
C11_Witness ==
    \E k \in 1..Len(fcrops) :
        /\ fcrops[k].startPage = CHUNK_SIZE
        /\ fcrops[k].pageNumber = fcrops[k].relPage
        /\ fcrops[k].pageNumber < fcrops[k].startPage

(* C12: no record leaves extraction with hasImage and a region that has    *)
(* ymax <= ymin, xmax <= xmin or a span under 20, and no such region is    *)
(* handed to cropAndSaveImage.                                             *)
C12_NoInvalidRegionCropped ==
    /\ FigureReturned =>
          \A k \in 1..Len(fout) :
              (fout[k].hasImage /\ fout[k].box # NoBox) => RegionWellFormed(fout[k].box)
    /\ \A k \in 1..Len(fcrops) : RegionWellFormed(fcrops[k].box)

\* cropAndSaveImage is called with a region of no height
C12_Witness ==
    \E k \in 1..Len(fcrops) : fcrops[k].box[3] <= fcrops[k].box[1]

(* C13: a record returned by extraction has a figure region (bounding box  *)
(* and page number) if and only if its hasImage is true.                   *)
C13_RegionIffHasImage ==
    FigureReturned =>
        \A k \in 1..Len(fout) :
            fout[k].hasImage <=> (fout[k].box # NoBox /\ fout[k].pageNumber # NoPage)

\* parseStructuredPaper returns a record with hasImage and no bounding box,
\* and one with a bounding box and no hasImage
C13_Witness ==
    /\ FigureReturned
    /\ fparser = "parseStructuredPaper"
    /\ \E k \in 1..Len(fout) : fout[k].hasImage /\ fout[k].box = NoBox
    /\ \E k \in 1..Len(fout) : ~fout[k].hasImage /\ fout[k].box # NoBox

-----------------------------------------------------------------------------
\* the pixel box of the region before padding, in the result's unit, and its
\* part on the page
BoxLeft == IF cversion = "sharp" THEN Round(cbox[2] * cwidth, REGION_SCALE)
           ELSE cbox[2] * cwidth
BoxTop == IF cversion = "sharp" THEN Round(cbox[1] * cheight, REGION_SCALE)
          ELSE cbox[1] * cheight
BoxWidth == IF cversion = "sharp" THEN Round((cbox[4] - cbox[2]) * cwidth, REGION_SCALE)
            ELSE (cbox[4] - cbox[2]) * cwidth
BoxHeight == IF cversion = "sharp" THEN Round((cbox[3] - cbox[1]) * cheight, REGION_SCALE)
             ELSE (cbox[3] - cbox[1]) * cheight

-----------------------------------------------------------------------------
\* the numbers of the sub-batches sent, and of those that returned, in order
EventsOf(op) == SelectSeq(uevents, LAMBDA e : e[1] = op)
SentBatches == [k \in 1..Len(EventsOf("send")) |-> EventsOf("send")[k][2]]
ReturnedBatches == [k \in 1..Len(EventsOf("return")) |-> EventsOf("return")[k][2]]

\* the ids of sub-batch k of the claim: ids 100 (k - 1) + 1 .. 100 k of the input
ClaimedBatch(k) == {uvectors[j] : j \in (100 * (k - 1) + 1)..Min(100 * k, Len(uvectors))}

(* C15: upsertVectors sends sub-batches 1, 2, ... one after another, each  *)
(* only after the one before returned, each of at most 100 vectors in      *)
(* input order; when it returns it has sent ceil(n/100) of them and every  *)
(* input vector in exactly one; for n = 0 it sends nothing.                *)
C15_SequentialSubBatches ==
    /\ SentBatches = [k \in 1..Len(SentBatches) |-> k]
    /\ ReturnedBatches = [k \in 1..Len(ReturnedBatches) |-> k]
    /\ \A e \in 1..Len(uevents) :
          uevents[e] = <<(IF e % 2 = 1 THEN "send" ELSE "return"), (e + 1) \div 2>>
    /\ ubatch # <<>> =>
          /\ Len(ubatch) <= 100
          /\ ubatch = SubSeq(uvectors, 100 * (Len(SentBatches) - 1) + 1,
                             100 * (Len(SentBatches) - 1) + Len(ubatch))
          /\ Range(ubatch) = ClaimedBatch(Len(SentBatches))
    /\ ustate = "returned" =>
          /\ Len(SentBatches) = CeilDiv(Len(uvectors), 100)
          /\ Len(ReturnedBatches) = Len(SentBatches)
          /\ uindex = Range(uvectors)
          /\ \A j \in 1..Len(uvectors) :
                Cardinality({k \in 1..Len(SentBatches) : uvectors[j] \in ClaimedBatch(k)}) = 1
          /\ Len(uvectors) = 0 => uevents = <<>>

C15_Witness ==
    /\ ustate = "returned"
    /\ Len(uvectors) = MaxVectors
    /\ Len(ReturnedBatches) = 3

(* C16: when the upsert of sub-batch k fails, upsertVectors throws to its  *)
(* caller an error that identifies sub-batch k, no later sub-batch is      *)
(* sent, and the sub-batches before k stay in the index.                   *)
C16_FailingSubBatchReported ==
    ustate = "thrown" =>
        /\ uerror.batch = ufailed
        /\ Len(SentBatches) = ufailed
        /\ \A k \in 1..(ufailed - 1) : ClaimedBatch(k) \subseteq uindex

\* sub-batch 2 of 3 fails: the caller gets the provider's error as it is
C16_Witness ==
    /\ ustate = "thrown"
    /\ ufailed = 2
    /\ Len(uvectors) > 200
    /\ ClaimedBatch(1) \subseteq uindex
    /\ Len(SentBatches) = 2
    /\ uerror = ProviderError

-----------------------------------------------------------------------------
\* the section headers of a formatted context, in order
HeadersOf(context) == SelectSeq(context, LAMBDA l : l.kind = "header")

(* C17: when the search resolves with no match, the context handed to the  *)
(* generation is the text 'No relevant past paper questions found.', never *)
(* the empty string; with n >= 1 results it holds exactly n section        *)
(* headers, numbered 1..n, for the results in the order returned.          *)
C17_EmptyResultsSentinel ==
    (hstage = "responded" /\ houtcome = "resolved") =>
        /\ hgen.given
        /\ hgen.context # <<>>
        /\ hgen.context = hcontext
        /\ Len(hresults) = 0 =>
              hgen.context = <<Line("text", 0, "No relevant past paper questions found.")>>
        /\ Len(hresults) >= 1 =>
              /\ Len(HeadersOf(hgen.context)) = Len(hresults)
              /\ \A k \in 1..Len(hresults) :
                    /\ HeadersOf(hgen.context)[k].n = k
                    /\ HeadersOf(hgen.context)[k].id = hresults[k].id
              /\ \A l \in 1..Len(hgen.context) : hgen.context[l].kind # "text"

C17_Witness ==
    /\ hstage = "responded"
    /\ houtcome = "resolved"
    /\ hresults = <<>>
    /\ hgen.given
    /\ hgen.context[1].id = NO_RESULTS_TEXT

(* C18: once the search is awaited, the handler is never still waiting     *)
(* after the 5 second timeout; for every outcome it starts the generation  *)
(* stream and returns the streamed response, not an error status, and      *)
(* after a rejection or a timeout it passes no context.                    *)
C18_RetrievalNeverBlocksChat ==
    /\ hstage = "awaitSearch" => hclock <= RAG_TIMEOUT_MS
    /\ (hstage = "responded" /\ houtcome \in {"resolved", "rejected", "timeout"}) =>
          /\ hstatus = 200
          /\ hgen # NoGeneration
    /\ (hstage = "responded" /\ houtcome \in {"rejected", "timeout"}) => ~hgen.given

\* the handler of part_000 still waits for the search after 5 seconds
C18_Witness ==
    /\ hhandler = "part_000"
    /\ hstage = "awaitSearch"
    /\ hclock = MaxClockMs
    /\ hgen = NoGeneration
    /\ hstatus = 0

-----------------------------------------------------------------------------
\* the natural key of a row or of a vector's metadata
NaturalKey(r) == <<r.year, r.paper, r.questionNumber>>

\* the document set at position p was ingested to the end after its rows
\* were last deleted
ReingestedAfterClear(p) ==
    /\ prev[p].outcome = "complete"
    /\ ~cleared[p]
    /\ \E row \in db : row.year = Papers[p].year /\ row.paper = Papers[p].paper
                       /\ row.id[4] > 1

(* C19: the index never holds two vectors for one natural key, and once a  *)
(* document set has been deleted and ingested again to the end, every      *)
(* vector of that set is the vector of a row of the persistent store.      *)
C19_VectorIdStable ==
    /\ \A v, w \in index : NaturalKey(v) = NaturalKey(w) => v.id = w.id
    /\ \A p \in 1..Len(Papers) :
          (ReingestedAfterClear(p) /\ pc = "loop") =>
              \A v \in index :
                  (v.year = Papers[p].year /\ v.paper = Papers[p].paper) =>
                      \E row \in db : row.id = v.id

\* 2024 Paper 12 was ingested, cleared and ingested again: question 1(a) has
\* its first vector, whose row is gone, and the vector of its second row
C19_Witness ==
    /\ ReingestedAfterClear(1)
    /\ pc = "loop"
    /\ \E v, w \in index :
          /\ NaturalKey(v) = NaturalKey(w)
          /\ v.id # w.id
          /\ ~ \E row \in db : row.id = v.id
          /\ \E row \in db : row.id = w.id

-----------------------------------------------------------------------------
\* ingestPaper is running for the document set at position p
IngestPaperRunning(p) == gpaper = p /\ gpc \in {"extractQ", "extractMS", "rest"}

(* C20: every call of ingestPaper eventually ends, complete or failed, and *)
(* ingestAllPapers then leaves that document set (it goes on to the next,  *)
(* or stops on the error in test mode), also when the generation           *)
(* capability never answers.                                               *)
C20_IngestionTerminates ==
    \A p \in 1..Len(Papers) :
        /\ IngestPaperRunning(p) ~> (gpaper = p /\ gpc \in {"complete", "failed"})
        /\ IngestPaperRunning(p) ~> (gpaper > p \/ gpc = "thrown")

\* a generation call of the question extraction has been awaited for as long
\* as the model counts, and is still pending
C20_Witness ==
    /\ gpc = "extractQ"
    /\ gcall = "pending"
    /\ gclock = MaxPendingMs

-----------------------------------------------------------------------------
(* C21: in test mode ingestAllPapers calls ingestPaper for the first       *)
(* discovered set only, at most once, and when that call failed the run    *)
(* ends by throwing: it neither goes on nor returns normally.              *)
C21_TestModeFirstSetAndRethrow ==
    (testMode /\ runState # "idle") =>
        /\ Len(calls) <= 1
        /\ \A k \in 1..Len(calls) : calls[k] = 1
        /\ (pc = "loop" /\ calls = <<1>> /\ prev[1].outcome = "failed") =>
              runState = "thrown"

C21_Witness ==
    /\ testMode
    /\ runState = "thrown"
    /\ calls = <<1>>
    /\ prev[1].outcome = "failed"

-----------------------------------------------------------------------------
(* C22: within a call of ingestPaper the stages follow each other in the   *)
(* order question extraction, mark-scheme extraction, merge, existence     *)
(* filter, persist, index.  The mark-scheme pass starts only when the      *)
(* question pass is past its last chunk, merge only when the mark-scheme   *)
(* pass is past its last chunk; rows are created in the persist stage      *)
(* only; vectors are upserted only when every new question has its row;    *)
(* once an error is thrown no stage runs and the stores are left alone.    *)
C22_StagesInOrder ==
    [][ /\ (pc' = "extractMS" /\ pc # "extractMS") =>
              (pc = "extractQ" /\ chunkStart >= QuestionPaperPages(paperIdx))
        /\ (pc' = "merge" /\ pc # "merge") =>
              (pc = "extractMS" /\ chunkStart >= MarkSchemePages)
        /\ (pc' = "filter" /\ pc # "filter") => pc = "merge"
        /\ (pc' = "persist" /\ pc # "persist") => pc = "filter"
        /\ (pc' = "upsert" /\ pc # "upsert") =>
              (pc = "persist" /\ Len(savedQuestions) = Len(newQuestions))
        /\ (db' \ db # {}) => (pc = "persist" /\ pc' = "persist")
        /\ (index' # index) =>
              /\ pc = "upsert"
              /\ Len(savedQuestions) = Len(newQuestions)
              /\ Range(savedQuestions) \subseteq db
        /\ (pc = "throwing") =>
              (pc' \in {"throwing", "failed"} /\ db' = db /\ index' = index)
        /\ (pc = "failed") =>
              (pc' \in {"failed", "loop"} /\ db' = db /\ index' = index)
      ]_vars

\* a call went through every stage: its rows are in the table and their
\* vectors in the index
C22_Witness ==
    /\ pc = "complete"
    /\ Len(savedQuestions) >= 2
    /\ Range(savedQuestions) \subseteq db
    /\ \A k \in 1..Len(savedQuestions) : VectorOf(savedQuestions[k]) \in index

-----------------------------------------------------------------------------
(* C23: a generation call is in flight only if it is the first of the run  *)
(* or a pause was taken since the previous generation call ended.          *)
C23_PauseBeforeEveryCall == gcall = "pending" => gpause # "none"

\* the first generation call of the second document set is made with no
\* pause since the last call of the first set, which failed
C23_Witness ==
    /\ ~gtest
    /\ gpaper = 2
    /\ gpc = "extractQ"
    /\ gstart = 0
    /\ gcall = "pending"
    /\ gpause = "none"

-----------------------------------------------------------------------------
\* how many events e the history log holds
Count(log, e) == Len(SelectSeq(log, LAMBDA x : x.e = e))

\* the waits of a history, in order
Waits(log) == SelectSeq(log, LAMBDA x : x.e = "wait")

(* C24: a chunk is given up only after three failed attempts (the first    *)
(* and two retries); at most three attempts are made; every retry is       *)
(* preceded by the same delay; nothing follows a successful parse and no   *)
(* delay follows the last failed attempt.                                  *)
C24_TwoRetriesPerChunk ==
    /\ Count(rlog, "attempt") <= 3
    /\ rstate = "givenUp" => Count(rlog, "failed") = 3
    /\ \A k \in 1..Len(Waits(rlog)) : Waits(rlog)[k].ms = Waits(rlog)[1].ms
    /\ \A k \in 1..Len(rlog) :
          /\ rlog[k].e = "parsed" => k = Len(rlog)
          /\ rlog[k].e = "wait" => (k > 1 /\ rlog[k - 1].e = "failed")
    /\ rstate = "givenUp" => rlog[Len(rlog)].e = "failed"

\* the mark-scheme extraction skips a chunk after its second failed attempt
C24_Witness ==
    /\ rparser = "extractMarkSchemeFromPDF"
    /\ rstate = "givenUp"
    /\ Count(rlog, "attempt") = 2
    /\ Count(rlog, "failed") = 2
    /\ Count(rtry, "ok") = 1

-----------------------------------------------------------------------------
-----------------------------------------------------------------------------
\* the (year, paper) scopes for which the files hold a document of this type
ScopesWith(type) == {<<FileYear(dversion, f), f.num>> : f \in {x \in dfiles : x.type = type}}

(* C26: every set returned has a question paper and a mark scheme among    *)
(* the files of its (year, paper); a group with only one of the two is not *)
(* returned and a warning names it; no two sets returned have the same     *)
(* (year, paper); the list is ordered by year descending, then by paper    *)
(* ascending.                                                              *)
C26_DiscoverPairsOnly ==
    dstate = "returned" =>
        /\ \A k \in DOMAIN dpapers :
              /\ <<dpapers[k].year, dpapers[k].paper>> \in ScopesWith("qp")
              /\ <<dpapers[k].year, dpapers[k].paper>> \in ScopesWith("ms")
        /\ \A g \in PaperGroups(dversion, dfiles) :
              ~(GroupHas(dversion, dfiles, g, "qp") /\ GroupHas(dversion, dfiles, g, "ms")) =>
                  /\ \A k \in DOMAIN dpapers : dpapers[k] # g
                  /\ g \in dwarned
        /\ \A i, j \in DOMAIN dpapers :
              (dpapers[i].year = dpapers[j].year /\ dpapers[i].paper = dpapers[j].paper)
                  => i = j
        /\ \A i, j \in DOMAIN dpapers :
              i < j =>
                  \/ dpapers[i].year > dpapers[j].year
                  \/ /\ dpapers[i].year = dpapers[j].year
                     /\ ~PaperLess(dversion, dpapers[j].paper, dpapers[i].paper)

\* the practice script has skipped a mark scheme without its question paper
\* and has warned about nothing
C26_Witness ==
    /\ dversion = "ingest-practice"
    /\ dstate = "returned"
    /\ dwarned = {}
    /\ Len(dpapers) = 1
    /\ \E f \in dfiles : f.type = "ms" /\ <<FileYear(dversion, f), f.num>> \notin ScopesWith("qp")

-----------------------------------------------------------------------------
(* C27: for a new question with hasImage true, whenever the figure step    *)
(* has ended (the call was not made for lack of a region or page number,   *)
(* or cropAndSaveImage returned) the Question Record can be created, and   *)
(* cropAndSaveImage only ever returns null or a rectangle; when it has not *)
(* produced a rectangle the record is created with imageUrl null.          *)
C27_FigureNeverBlocksPersistence ==
    /\ cresult.kind \in {"pending", "null", "rect"}
    /\ ((cresult.kind # "pending" \/ cfigure # "complete") /\ csaved = "pending") =>
          ENABLED CropPersist
    /\ (csaved # "pending" /\ cresult.kind # "rect") => csaved = NoImage
    /\ (csaved # "pending" /\ cfigure # "complete") => csaved = NoImage
    /\ (csaved # "pending" /\ (~cpageOk \/ cbox[4] <= cbox[2] \/ cbox[3] <= cbox[1])) =>
          csaved = NoImage

\* the page was valid and the region well formed, the crop still failed (a
\* render or file error), and the record was created without an image
C27_Witness ==
    /\ cfigure = "complete"
    /\ cpageOk
    /\ cbox = <<0, 0, 500, 500>>
    /\ cresult.kind = "null"
    /\ csaved = NoImage

-----------------------------------------------------------------------------
\* two Question Records with the same (year, paper, questionNumber)
DuplicateRecords ==
    \E a, b \in kdb :
        /\ a.id # b.id
        /\ a.year = b.year /\ a.paper = b.paper /\ a.questionNumber = b.questionNumber

-----------------------------------------------------------------------------
\* the calls of identifier under config allowed at the instants from through to
RECURSIVE AllowedBetween(_, _, _, _)
AllowedBetween(identifier, config, from, to) ==
    IF from > to THEN 0
    ELSE lallowed[<<identifier, config>>][from]
            + AllowedBetween(identifier, config, from + 1, to)

\* the calls allowed in the interval [t, t + windowMs)
AllowedInWindowFrom(identifier, config, t) ==
    AllowedBetween(identifier, config, t, Min(t + config.windowMs - 1, MaxNow))

(* C29: in every interval of length windowMs, at most maxRequests calls of *)
(* an identifier are allowed; a denied call leaves the stored count and    *)
(* resetTime as they were; the reported remaining is never negative.       *)
C29_RateEnforced ==
    /\ \A identifier \in LimitIds, config \in LimitConfigs : \A t \in 0..MaxNow :
          AllowedInWindowFrom(identifier, config, t) <= config.maxRequests
    /\ lresult.kind = "denied" =>
          /\ lcalled.had
          /\ lcalled.countAfter = lcalled.count
          /\ lcalled.resetTimeAfter = lcalled.resetTime
    /\ lresult.remaining >= 0

\* a call was denied, and another allowed once the stored resetTime had passed
C29_Witness ==
    /\ lresult.kind = "new"
    /\ lcalled.had
    /\ lcalled.count >= lconfig.maxRequests

\* what the limiter does enforce: a call is allowed only while the stored
\* count is within its maxRequests, a denied call changes nothing, and
\* remaining is never negative
C29_PerStoredWindow ==
    /\ lresult.kind \in {"new", "counted"} =>
          lcalled.countAfter <= lconfig.maxRequests
    /\ lresult.kind = "denied" =>
          /\ lcalled.had
          /\ lcalled.countAfter = lcalled.count
          /\ lcalled.resetTimeAfter = lcalled.resetTime
    /\ lresult.remaining >= 0

-----------------------------------------------------------------------------
\* the positions of the records of questionNumber qn in the mark-scheme list
SchemePositions(mss, qn) == {j \in 1..Len(mss) : mss[j].questionNumber = qn}

(* C30: when several mark-scheme records share a questionNumber, the       *)
(* merged question carries the markScheme and examinerRemarks of the last  *)
(* of them in input order; and the list extractMarkSchemeFromPDF returns   *)
(* is the validated list itself, records of one questionNumber included.   *)
C30_LastMarkSchemeWins ==
    xstage \in {"merged", "mergedDirect"} =>
        /\ \A k \in 1..Len(xmerged) :
              LET at == SchemePositions(xschemes, xmergeIn[k].questionNumber)
                  last == CHOOSE j \in at : \A i \in at : i <= j
              IN  at # {} =>
                    /\ xmerged[k].markScheme = xschemes[last].markScheme
                    /\ xmerged[k].examinerRemarks = xschemes[last].examinerRemarks
        /\ ~ValidateMarkSchemes(xschemes).thrown =>
              ValidateMarkSchemes(xschemes).value = xschemes

\* two records of 3(a) with different texts; the question got the second's
C30_Witness ==
    /\ xstage = "merged"
    /\ Len(xschemes) = 2
    /\ xschemes[1].questionNumber = Q3a /\ xschemes[2].questionNumber = Q3a
    /\ xschemes[1].markScheme = "m1" /\ xschemes[2].markScheme = "m2"
    /\ \E k \in 1..Len(xmerged) :
          /\ xmerged[k].questionNumber = Q3a
          /\ xmerged[k].markScheme = "m2"
          /\ xmerged[k].examinerRemarks = "r2"

====
